---- MODULE Spec2Model ----
(***************************************************************************)
(* Verification model of the Telegram -> WordPress intake bot.             *)
(*                                                                         *)
(*   - the three bot variants (bot.js, bot-2.js and the first, Russian     *)
(*     variant src/unnamed/part_000): the per-user session state machine,  *)
(*     with the handlers' await points, because Telegraf starts the        *)
(*     handler of every update it is given without waiting for the         *)
(*     handlers of earlier updates of the same chat;                       *)
(*   - ValidationService (src/unnamed/part_004, lines 448-688);            *)
(*   - WordPressAPI.submitUserData / retrySubmission (part_004, 241-316);  *)
(*   - the block record of UserController (src/unnamed/part_001).          *)
(*                                                                         *)
(* A text is a sequence of characters; a character is a string: an ASCII   *)
(* character stands for itself, a Cyrillic letter is written "cy_x"        *)
(* (lower case) or "CY_x" (upper case), other symbols have names.          *)
(***************************************************************************)
EXTENDS Integers, Sequences, FiniteSets, Bags, TLC

(***************************************************************************)
(* Characters and strings                                                  *)
(***************************************************************************)
LatinLower == << "a","b","c","d","e","f","g","h","i","j","k","l","m",
                 "n","o","p","q","r","s","t","u","v","w","x","y","z" >>

LatinUpper == << "A","B","C","D","E","F","G","H","I","J","K","L","M",
                 "N","O","P","Q","R","S","T","U","V","W","X","Y","Z" >>

\* The Russian alphabet: the range a-ya plus yo of the name pattern.
CyrLower == << "cy_a","cy_b","cy_v","cy_g","cy_d","cy_e","cy_zh","cy_z",
               "cy_i","cy_j","cy_k","cy_l","cy_m","cy_n","cy_o","cy_p",
               "cy_r","cy_s","cy_t","cy_u","cy_f","cy_h","cy_c","cy_ch",
               "cy_sh","cy_sch","cy_hard","cy_y","cy_soft","cy_eh","cy_yu",
               "cy_ya","cy_yo" >>

CyrUpper == << "CY_a","CY_b","CY_v","CY_g","CY_d","CY_e","CY_zh","CY_z",
               "CY_i","CY_j","CY_k","CY_l","CY_m","CY_n","CY_o","CY_p",
               "CY_r","CY_s","CY_t","CY_u","CY_f","CY_h","CY_c","CY_ch",
               "CY_sh","CY_sch","CY_hard","CY_y","CY_soft","CY_eh","CY_yu",
               "CY_ya","CY_yo" >>

\* Ukrainian letters outside the Russian range (i, yi, ye, g with upturn).
UkrLower == << "uk_i", "uk_yi", "uk_ye", "uk_g" >>

UkrUpper == << "UK_i", "UK_yi", "UK_ye", "UK_g" >>

Range(s) == { s[i] : i \in DOMAIN s }

Digits == { "0","1","2","3","4","5","6","7","8","9" }

Letters == Range(LatinLower) \cup Range(LatinUpper)

\* JavaScript's \s, as far as the inputs of this model go.
Whitespace == { " ", "\t", "\n", "\r" }

\* The characters "." of a JavaScript regular expression does not match.
LineTerminators == { "\n", "\r" }

UpperCase == LatinUpper \o CyrUpper \o UkrUpper

LowerCase == LatinLower \o CyrLower \o UkrLower

UpperChars == Range(UpperCase)

\* The lower-case letter of each upper-case letter.
LowerOf ==
    [ c \in UpperChars |->
        LowerCase[CHOOSE i \in DOMAIN UpperCase : UpperCase[i] = c] ]

\* String.prototype.toLowerCase, one character.
LowerChar(c) == IF c \in UpperChars THEN LowerOf[c] ELSE c

ToLowerCase(s) == [ i \in DOMAIN s |-> LowerChar(s[i]) ]

RECURSIVE TrimStart(_)
TrimStart(s) ==
    IF s # << >> /\ Head(s) \in Whitespace THEN TrimStart(Tail(s)) ELSE s

RECURSIVE TrimEnd(_)
TrimEnd(s) ==
    IF s # << >> /\ s[Len(s)] \in Whitespace
    THEN TrimEnd(SubSeq(s, 1, Len(s) - 1))
    ELSE s

\* String.prototype.trim
Trim(s) == TrimEnd(TrimStart(s))

StartsWith(s, p) == Len(s) >= Len(p) /\ SubSeq(s, 1, Len(p)) = p

\* s with the characters of the set cs removed: s.replace(/[cs]/g, '')
Remove(s, cs) == SelectSeq(s, LAMBDA c : c \notin cs)

\* /word/i.test(s) for a word of lower-case letters and plain symbols
ContainsCI(s, word) ==
    \E i \in 1 .. (Len(s) - Len(word) + 1) :
        \A j \in 1 .. Len(word) : LowerChar(s[i + j - 1]) = word[j]

\* /(.)\1{n,}/.test(s): some character other than a line terminator
\* occurs n + 1 times in a row
HasRun(s, n) ==
    \E i \in 1 .. (Len(s) - n) :
        /\ s[i] \notin LineTerminators
        /\ \A j \in 1 .. n : s[i + j] = s[i]

\* The string made of n copies of the character c.
Repeat(c, n) == [ i \in 1 .. n |-> c ]

(***************************************************************************)
(* ValidationService                                                       *)
(***************************************************************************)
\* patterns.name: the character class [a-ya yo A-YA YO a-zA-Z\s\-]
NameChars ==
    Range(CyrLower) \cup Range(CyrUpper) \cup Letters \cup Whitespace \cup {"-"}

\* patterns.phone: the character class [\d\s\-\(\)]
PhoneChars == Digits \cup Whitespace \cup { "-", "(", ")" }

\* patterns.email: the classes of the local part, the domain and the TLD
EmailLocalChars == Letters \cup Digits \cup { ".", "_", "%", "+", "-" }

EmailDomainChars == Letters \cup Digits \cup { ".", "-" }

AllIn(s, cs) == \A i \in DOMAIN s : s[i] \in cs

\* patterns.name.test(s): /^[...]{2,50}$/
NamePattern(s) == Len(s) >= 2 /\ Len(s) <= 50 /\ AllIn(s, NameChars)

\* patterns.phone.test(s): /^(\+7|8)[\d\s\-\(\)]{10,15}$/
PhonePattern(s) ==
    \E p \in { << "+", "7" >>, << "8" >> } :
        /\ StartsWith(s, p)
        /\ Len(s) - Len(p) >= 10
        /\ Len(s) - Len(p) <= 15
        /\ AllIn(SubSeq(s, Len(p) + 1, Len(s)), PhoneChars)

\* patterns.email.test(s): /^[a-zA-Z0-9._%+-]+@[a-zA-Z0-9.-]+\.[a-zA-Z]{2,}$/
EmailPattern(s) ==
    \E at \in DOMAIN s : \E dot \in DOMAIN s :
        /\ s[at] = "@"
        /\ s[dot] = "."
        /\ at > 1
        /\ AllIn(SubSeq(s, 1, at - 1), EmailLocalChars)
        /\ dot > at + 1
        /\ AllIn(SubSeq(s, at + 1, dot - 1), EmailDomainChars)
        /\ Len(s) - dot >= 2
        /\ AllIn(SubSeq(s, dot + 1, Len(s)), Letters)

\* The words validateName looks for, each as /word/i.
SuspiciousNameWords ==
    { << "t","e","s","t" >>, << "a","d","m","i","n" >>, << "b","o","t" >>,
      << "s","p","a","m" >>, << "f","a","k","e" >>,
      << "q","w","e","r","t","y" >>, << "a","s","d","f" >> }

validateName(name) ==
    IF name = << >> THEN FALSE
    ELSE LET trimmedName == Trim(name) IN
         /\ Len(trimmedName) >= 2
         /\ Len(trimmedName) <= 50
         /\ NamePattern(trimmedName)
         /\ \A i \in DOMAIN trimmedName : trimmedName[i] \notin Digits
         /\ \A w \in SuspiciousNameWords : ~ContainsCI(trimmedName, w)
         \* /^[a-z]+$/i
         /\ ~AllIn(trimmedName, Letters)
         \* /(.)\1{3,}/
         /\ ~HasRun(trimmedName, 3)

\* phone.replace(/[\s\-\(\)]/g, '')
CleanPhone(phone) == Remove(phone, Whitespace \cup { "-", "(", ")" })

validatePhone(phone) ==
    IF phone = << >> THEN FALSE
    ELSE LET cleanPhone == CleanPhone(phone) IN
         IF ~PhonePattern(phone) THEN FALSE
         ELSE IF StartsWith(cleanPhone, << "+", "3", "8" >>)
              THEN Len(cleanPhone) = 13
         ELSE IF StartsWith(cleanPhone, << "0" >>)
              THEN Len(cleanPhone) = 11
         ELSE FALSE

normalizePhone(phone) ==
    IF ~validatePhone(phone) THEN phone
    ELSE LET cleanPhone == CleanPhone(phone) IN
         IF StartsWith(cleanPhone, << "8" >>)
         THEN << "+", "3", "8" >> \o Tail(cleanPhone)
         ELSE IF ~StartsWith(cleanPhone, << "+", "3", "8" >>)
              THEN << "+", "3", "8" >> \o cleanPhone
         ELSE cleanPhone

\* Str("abc") is not available: the deny-lists are spelled character by
\* character.
DisposableEmailDomains ==
    { << "1","0","m","i","n","u","t","e","m","a","i","l",".","c","o","m" >>,
      << "g","u","e","r","r","i","l","l","a","m","a","i","l",".","c","o","m" >>,
      << "m","a","i","l","i","n","a","t","o","r",".","c","o","m" >>,
      << "t","e","m","p","m","a","i","l",".","o","r","g" >>,
      << "t","h","r","o","w","a","w","a","y",".","e","m","a","i","l" >>,
      << "t","e","m","p","-","m","a","i","l",".","o","r","g" >>,
      << "y","o","p","m","a","i","l",".","c","o","m" >> }

SuspiciousEmailWords ==
    { << "t","e","s","t" >>, << "s","p","a","m" >>, << "f","a","k","e" >>,
      << "a","d","m","i","n","@","a","d","m","i","n" >>,
      << "n","o","r","e","p","l","y" >>,
      << "n","o","-","r","e","p","l","y" >> }

\* trimmedEmail.split('@')[1], for a string the email pattern matched
\* (exactly one "@")
EmailDomain(s) ==
    LET at == CHOOSE i \in DOMAIN s : s[i] = "@" IN SubSeq(s, at + 1, Len(s))

\* A validateEmail that compared the address as it was typed with the
\* deny-lists: no toLowerCase, no i flag.
CaseSensitiveEmail(email) ==
    IF email = << >> THEN FALSE
    ELSE LET trimmedEmail == Trim(email)
             contains(s, word) ==
                 \E i \in 1 .. (Len(s) - Len(word) + 1) :
                     \A j \in 1 .. Len(word) : s[i + j - 1] = word[j]
         IN
         /\ EmailPattern(trimmedEmail)
         /\ Len(trimmedEmail) <= 254
         /\ Len(EmailDomain(trimmedEmail)) >= 1
         /\ Len(EmailDomain(trimmedEmail)) <= 253
         /\ EmailDomain(trimmedEmail) \notin DisposableEmailDomains
         /\ \A w \in SuspiciousEmailWords : ~contains(trimmedEmail, w)

validateEmail(email) ==
    IF email = << >> THEN FALSE
    ELSE LET trimmedEmail == ToLowerCase(Trim(email)) IN
         /\ EmailPattern(trimmedEmail)
         /\ Len(trimmedEmail) <= 254
         /\ Len(EmailDomain(trimmedEmail)) >= 1
         /\ Len(EmailDomain(trimmedEmail)) <= 253
         /\ EmailDomain(trimmedEmail) \notin DisposableEmailDomains
         /\ \A w \in SuspiciousEmailWords : ~ContainsCI(trimmedEmail, w)

\* validateMessage: the words of /.../gi and /.../i, in lower case.
SpamWords ==
    { << "cy_s","cy_k","cy_i","cy_d","cy_k","cy_a" >>,
      << "cy_a","cy_k","cy_c","cy_i","cy_ya" >>,
      << "cy_s","cy_r","cy_o","cy_ch","cy_n","cy_o" >>,
      << "cy_v","cy_y","cy_g","cy_o","cy_d","cy_a" >> }

DangerousWords ==
    { << "<","s","c","r","i","p","t" >>,
      << "j","a","v","a","s","c","r","i","p","t",":" >>,
      << "o","n","c","l","i","c","k" >> }

\* The length of "http://" or "https://" if s has it at position i, else 0.
LinkPrefix(s, i) ==
    IF i + 6 <= Len(s) /\ SubSeq(s, i, i + 6) = << "h","t","t","p",":","/","/" >>
    THEN 7
    ELSE IF i + 7 <= Len(s)
            /\ SubSeq(s, i, i + 7) = << "h","t","t","p","s",":","/","/" >>
    THEN 8
    ELSE 0

\* /(https?:\/\/[^\s]+){3,}/.test(s): three links, each of at least one
\* character after its prefix, one right after the other.
HasThreeLinks(s) ==
    LET links == { i \in DOMAIN s : LinkPrefix(s, i) > 0 } IN
    \E i1 \in links : \E i2 \in links : \E i3 \in links :
        /\ i2 > i1 + LinkPrefix(s, i1)
        /\ i3 > i2 + LinkPrefix(s, i2)
        /\ i3 + LinkPrefix(s, i3) <= Len(s)
        /\ \A k \in i1 .. (i3 + LinkPrefix(s, i3)) : s[k] \notin Whitespace

\* /\$\d+|\d+\$|\d+rub/.test(s), "rub" in lower-case Cyrillic letters
MentionsMoney(s) ==
    \E i \in DOMAIN s :
        \/ s[i] = "$" /\ i < Len(s) /\ s[i + 1] \in Digits
        \/ s[i] \in Digits /\ i < Len(s) /\ s[i + 1] = "$"
        \/ /\ s[i] \in Digits
           /\ i + 3 <= Len(s)
           /\ SubSeq(s, i + 1, i + 3) = << "cy_r","cy_u","cy_b" >>

\* validateMessage, for a string
validateMessage(message) ==
    /\ Len(message) <= 1000
    /\ ~HasRun(message, 10)
    /\ ~HasThreeLinks(message)
    /\ \A w \in SpamWords \cup DangerousWords : ~ContainsCI(message, w)
    /\ ~MentionsMoney(message)

(***************************************************************************)
(* A validator called with any JavaScript value: what the call completes   *)
(* with.  A value is a record with its typeof and, for a string, a number  *)
(* or a boolean, what it is.                                               *)
(***************************************************************************)
JsNull == [ type |-> "null" ]

JsUndefined == [ type |-> "undefined" ]

JsString(text) == [ type |-> "string", text |-> text ]

\* !value
Falsy(value) ==
    \/ value.type \in { "null", "undefined" }
    \/ value.type = "string" /\ value.text = << >>
    \/ value.type = "number" /\ value.n = 0
    \/ value.type = "boolean" /\ ~value.b

\* The call returned value / the call threw a TypeError.
Returned(value) == [ threw |-> FALSE, value |-> value ]

Thrown == [ threw |-> TRUE, value |-> "TypeError" ]

\* if (!name || typeof name !== 'string') return false;
validateNameCall(value) ==
    IF Falsy(value) \/ value.type # "string" THEN Returned(FALSE)
    ELSE Returned(validateName(value.text))

validatePhoneCall(value) ==
    IF Falsy(value) \/ value.type # "string" THEN Returned(FALSE)
    ELSE Returned(validatePhone(value.text))

validateEmailCall(value) ==
    IF Falsy(value) \/ value.type # "string" THEN Returned(FALSE)
    ELSE Returned(validateEmail(value.text))

\* A validateMessage without its typeof test: message.length throws for
\* null and undefined, and a value of another type passes every test.
UnguardedMessageCall(value) ==
    IF value.type = "string" THEN Returned(validateMessage(value.text))
    ELSE IF value.type \in { "null", "undefined" } THEN Thrown
    ELSE Returned(TRUE)

\* if (typeof message !== 'string') return false;
validateMessageCall(value) ==
    IF value.type # "string" THEN Returned(FALSE)
    ELSE Returned(validateMessage(value.text))

(***************************************************************************)
(* Objects: a JavaScript object is a function from its keys to values; a   *)
(* key outside the domain reads as undefined.                              *)
(***************************************************************************)
EmptyObj == [ k \in {} |-> << >> ]

Has(obj, k) == k \in DOMAIN obj

\* obj[k] = v
Put(obj, k, v) == [ x \in (DOMAIN obj) \cup {k} |-> IF x = k THEN v ELSE obj[x] ]

\* JavaScript null, as the value of a string-valued field.
Null == << "null" >>

\* !!obj[k] for a string-valued field
Truthy(obj, k) == Has(obj, k) /\ obj[k] # Null /\ obj[k] # << >>

(***************************************************************************)
(* Bounds of the model                                                     *)
(***************************************************************************)
\* Delivery attempts after which the model stops following one submission.
MaxPosts == 4

\* Handlers of one user the model lets be pending at once.
MaxInFlight == 2

\* The clock of the model runs from 0 to MaxTime (minutes).
MaxTime == 1

VARIABLES
    \* -- WordPressAPI.submitUserData, one call --
    userData,     \* the record submitUserData was called with
    stack,        \* the pending calls, the running one last
    ret,          \* << >>, or <<r>>: r is being returned to the caller
    posts,        \* delivery attempts (client.post calls) made so far
    answers,      \* what the sink answered to each delivery attempt
    waited,       \* the delays slept through before the retries, in ms
    returned,     \* << >>, or <<r>>: the value the outermost call returned
    \* -- one user's conversation --
    variant,      \* which bot file runs: "bot", "bot-2" or "part_000"
    session,      \* ctx.session of the user
    inflight,     \* the bag of the user's handlers started and not finished
    lastReply,    \* the last message sent to the user
    lastEvent,    \* what the last handler step did (observed, not state)
    fails,        \* failed validations since the current field was entered
    run,          \* consecutive invalid inputs since a fresh start, or -1
    calls,        \* the records handed to the submission pipeline
    \* -- UserController, as far as the bot could consult it --
    userCache,    \* UserController.userCache
    now,          \* the clock
    userStats,    \* UserController.userStats
    \* -- one call of a function or of a method of UserController --
    input,        \* what it is called with
    output,       \* its name and what it returned
    ops           \* the calls of UserController's methods made so far

pipeVars == << userData, stack, ret, posts, answers, waited, returned >>

botVars == << variant, session, inflight, lastReply, lastEvent, fails, run,
              calls, userCache, now >>

sideVars == << userStats, input, output, ops >>

vars == << userData, stack, ret, posts, answers, waited, returned,
           variant, session, inflight, lastReply, lastEvent, fails, run,
           calls, userCache, now, userStats, input, output, ops >>

(***************************************************************************)
(* WordPressAPI: the submission pipeline                                   *)
(***************************************************************************)
\* retrySubmission: const maxRetries = 3
maxRetries == 3

\* retrySubmission: const delay = attempt * 2000
RetryDelay(attempt) == attempt * 2000

\* isValidEmail: /^[^\s@]+@[^\s@]+\.[^\s@]+$/
isValidEmail(email) ==
    \E at \in DOMAIN email : \E dot \in DOMAIN email :
        /\ email[at] = "@"
        /\ email[dot] = "."
        /\ at > 1
        /\ dot > at + 1
        /\ dot < Len(email)
        /\ \A i \in DOMAIN email :
              /\ email[i] \notin Whitespace
              /\ (email[i] = "@" => i = at)

\* isValidPhone: /^(\+380|0)\d{9}$/
isValidPhone(phone) ==
    \E p \in { << "+", "3", "8", "0" >>, << "0" >> } :
        /\ StartsWith(phone, p)
        /\ Len(phone) = Len(p) + 9
        /\ AllIn(SubSeq(phone, Len(p) + 1, Len(phone)), Digits)

\* The payload submitUserData builds: title and name are both userData.name;
\* a field userData lacks is undefined in the payload.
Payload(data) ==
    LET copy(obj, from, to) ==
            IF Has(data, from) THEN Put(obj, to, data[from]) ELSE obj
    IN  copy(copy(copy(copy(copy(copy(EmptyObj,
            "telegram_id", "telegram_id"), "name", "title"), "name", "name"),
            "phone", "phone"), "email", "email"), "message", "message")

validateSubmissionData(data) ==
    /\ \A field \in { "title", "phone" } : Truthy(data, field)
    /\ Has(data, "telegram_id") /\ data["telegram_id"] # 0
    /\ (Truthy(data, "email") => isValidEmail(data["email"]))
    /\ isValidPhone(data["phone"])

\* What one delivery attempt can end with: an HTTP response (axios rejects
\* every status outside 200..299), no response within the 10 s timeout
\* (error.code ECONNABORTED), or no response for another network reason.
SinkIds == { "lead-1", "lead-2" }

Responses ==
    [ kind : {"http"}, status : {200, 201}, id : SinkIds ]
    \cup [ kind : {"http"}, status : {400, 404, 500, 503}, id : {"none"} ]
    \cup [ kind : {"timeout", "network"}, status : {0}, id : {"none"} ]

IsSuccess(resp) ==
    resp.kind = "http" /\ resp.status >= 200 /\ resp.status < 300

\* A pipeline that retried after every failed response, 4xx included.
EveryStatusRetryable(resp) ==
    \/ resp.kind = "timeout"
    \/ resp.kind = "http" /\ resp.status >= 400

\* A pipeline that retried after a timeout only.
OnlyTimeoutRetryable(resp) == resp.kind = "timeout"

\* error.code === 'ECONNABORTED' || error.response?.status >= 500
IsRetryable(resp) ==
    \/ resp.kind = "timeout"
    \/ resp.kind = "http" /\ resp.status >= 500

SuccessResult(resp) == [ success |-> TRUE, id |-> resp.id, error |-> "none" ]

FailureResult(msg) == [ success |-> FALSE, id |-> "none", error |-> msg ]

\* A call that does not return: its promise is rejected with the error.
Rejection(msg) == [ rejected |-> msg ]

IsRejection(r) == "rejected" \in DOMAIN r

\* A catch block that threw again the errors it does not retry.
RethrownError(msg) == Rejection(msg)

\* submitUserData, the end of its catch block for an error it does not
\* retry: return { success: false, error: error.message }
CaughtError(msg) == FailureResult(msg)

SubmitFrame == [ fn |-> "submitUserData", attempt |-> 0, pc |-> "start" ]

RetryFrame(attempt) == [ fn |-> "retrySubmission", attempt |-> attempt, pc |-> "check" ]

Top == stack[Len(stack)]

SetTop(frame) == [ stack EXCEPT ![Len(stack)] = frame ]

Running(fn, pc) ==
    /\ stack # << >>
    /\ ret = << >>
    /\ Top.fn = fn
    /\ Top.pc = pc

\* The user records submitUserData is called with in this model.
ValidNameText ==
    << "CY_sh","cy_e","cy_v","cy_ch","cy_e","cy_n","cy_k","cy_o"," ",
       "CY_t","cy_a","cy_r","cy_a","cy_s" >>

IntlPhoneText == << "+","3","8","0","5","0","1","2","3","4","5","6","7" >>

NationalPhoneText == << "0","5","0","1","2","3","4","5","6","7" >>

ForeignPhoneText == << "+","7","9","1","6","1","2","3","4","5","6","7" >>

GoodEmailText == << "j","o","e","@","e","x",".","c","o","m" >>

UserId == 7

UserRecords ==
    LET base == Put(Put(EmptyObj, "telegram_id", UserId), "name", ValidNameText)
    IN  { Put(base, "phone", IntlPhoneText),
          Put(Put(base, "phone", NationalPhoneText), "email", GoodEmailText),
          Put(base, "phone", ForeignPhoneText),
          base }

\* submitUserData, when the record fails validateSubmissionData: the Error
\* thrown has neither code nor response, so the catch block returns.
SubmitRejectLocally ==
    /\ Running("submitUserData", "start")
    /\ ~validateSubmissionData(Payload(userData))
    /\ ret' = << CaughtError("Invalid submission data") >>
    /\ UNCHANGED << userData, stack, posts, answers, waited, returned >>
    /\ UNCHANGED botVars
    /\ UNCHANGED sideVars

\* submitUserData, one delivery attempt and what the catch block makes of
\* its outcome.
SubmitPost ==
    /\ Running("submitUserData", "start")
    /\ validateSubmissionData(Payload(userData))
    /\ posts < MaxPosts
    /\ \E resp \in Responses :
          /\ posts' = posts + 1
          /\ answers' = Append(answers, resp)
          /\ IF IsSuccess(resp)
             THEN /\ ret' = << SuccessResult(resp) >>
                  /\ stack' = stack
             ELSE IF IsRetryable(resp)
             THEN \* return await this.retrySubmission(userData, 1)
                  /\ ret' = ret
                  /\ stack' = Append(SetTop([Top EXCEPT !.pc = "retrying"]),
                                     RetryFrame(1))
             ELSE /\ ret' = << CaughtError("request failed") >>
                  /\ stack' = stack
    /\ UNCHANGED << userData, waited, returned >>
    /\ UNCHANGED botVars
    /\ UNCHANGED sideVars

\* retrySubmission, up to the timer: give up past maxRetries, else sleep.
RetryCheck ==
    /\ Running("retrySubmission", "check")
    /\ IF Top.attempt > maxRetries
       THEN /\ ret' = << FailureResult("Max retries exceeded") >>
            /\ stack' = stack
            /\ waited' = waited
       ELSE /\ ret' = ret
            /\ stack' = SetTop([Top EXCEPT !.pc = "sleeping"])
            /\ waited' = Append(waited, RetryDelay(Top.attempt))
    /\ UNCHANGED << userData, posts, answers, returned >>
    /\ UNCHANGED botVars
    /\ UNCHANGED sideVars

\* retrySubmission, when the timer fires: return await this.submitUserData(..)
RetryCall ==
    /\ Running("retrySubmission", "sleeping")
    /\ stack' = Append(SetTop([Top EXCEPT !.pc = "calling"]), SubmitFrame)
    /\ UNCHANGED << userData, ret, posts, answers, waited, returned >>
    /\ UNCHANGED botVars
    /\ UNCHANGED sideVars

\* The retrySubmission that awaits the call on top of the stack, if any:
\* its try block holds the call of submitUserData.
AwaitingRetry ==
    /\ Len(stack) > 1
    /\ Top.fn = "submitUserData"
    /\ stack[Len(stack) - 1].fn = "retrySubmission"

\* A call completes: its frame is popped, and the caller (which did
\* "return await") completes with the same value in its turn; the outermost
\* call hands the value to whoever called submitUserData.  A rejection of
\* the submitUserData that retrySubmission awaits is caught there:
\* catch (error) { return await this.retrySubmission(userData, attempt + 1) }
Return ==
    /\ stack # << >>
    /\ ret # << >>
    /\ IF AwaitingRetry /\ IsRejection(ret[1])
       THEN /\ stack' = Append(SubSeq(stack, 1, Len(stack) - 1),
                               RetryFrame(stack[Len(stack) - 1].attempt + 1))
            /\ ret' = << >>
            /\ returned' = returned
       ELSE /\ stack' = SubSeq(stack, 1, Len(stack) - 1)
            /\ IF Len(stack) = 1
               THEN returned' = ret /\ ret' = << >>
               ELSE returned' = returned /\ ret' = ret
    /\ UNCHANGED << userData, posts, answers, waited >>
    /\ UNCHANGED botVars
    /\ UNCHANGED sideVars

(***************************************************************************)
(* The messages a user sends in this model                                 *)
(***************************************************************************)
CmdStart == << "/","s","t","a","r","t" >>

CmdCancel == << "/","c","a","n","c","e","l" >>

CmdHelp == << "/","h","e","l","p" >>

\* The cancel button of bot.js and bot-2.js, and the one of part_000.
BtnCancelUk ==
    << "emoji_cross"," ","CY_s","cy_k","cy_a","cy_s","cy_u","cy_v","cy_a",
       "cy_t","cy_i" >>

BtnCancelRu ==
    << "emoji_cross"," ","CY_o","cy_t","cy_m","cy_e","cy_n","cy_a" >>

\* The menu buttons of bot.js: fill in the form, question to the unit
\* (complaint), back to the menu, and one of the four information buttons.
BtnForm ==
    << "emoji_memo"," ","CY_z","cy_a","cy_p","cy_o","cy_v","cy_n","cy_i",
       "cy_t","cy_i"," ","cy_a","cy_n","cy_k","cy_e","cy_t","cy_u" >>

BtnComplaint ==
    << "emoji_siren"," ","CY_p","cy_i","cy_t","cy_a","cy_n","cy_n","cy_ya" >>

BtnBack ==
    << "emoji_back"," ","CY_n","cy_a","cy_z","cy_a","cy_d"," ","cy_d","cy_o",
       " ","cy_m","cy_e","cy_n","cy_yu" >>

BtnInfo ==
    << "emoji_briefcase"," ","CY_v","cy_a","cy_k","cy_a","cy_n","cy_s",
       "uk_i","uk_yi" >>

\* The skip token of the message step, lower case: bot.js and bot-2.js
\* compare with the Ukrainian word, part_000 with the Russian one.
SkipUk ==
    << "cy_p","cy_r","cy_o","cy_p","cy_u","cy_s","cy_t","cy_i","cy_t","cy_i" >>

SkipRu ==
    << "cy_p","cy_r","cy_o","cy_p","cy_u","cy_s","cy_t","cy_i","cy_t","cy_soft" >>

\* Free texts: a well-formed name (also a complaint text of legal length),
\* a text no validator accepts, and a text longer than every length limit.
BadText == << "a", "b", "1" >>

\* Length limits of the message step and of the complaint text.
MaxMessageLength == 1000

MaxComplaintLength == 2000

MinComplaintLength == 10

LongText == Repeat("a", MaxComplaintLength + 1)

Variants == { "bot", "bot-2", "part_000" }

\* What the user of variant v sends: the commands, the buttons that variant
\* shows, and the free texts.
Messages(v) ==
    { CmdStart, CmdCancel, CmdHelp, ValidNameText, BadText, NationalPhoneText,
      LongText }
    \cup (IF v = "part_000" THEN { BtnCancelRu } ELSE { BtnCancelUk })
    \cup (IF v = "bot" THEN { BtnForm, BtnComplaint, BtnBack, BtnInfo } ELSE {})

\* The phone numbers a shared contact carries.
ContactPhones == { IntlPhoneText }

\* Which handler of setupHandlers takes a text message: Telegraf tries the
\* handlers in the order of their registration and the first that matches
\* runs alone.
Route(v, m) ==
    IF m = CmdStart THEN "start"
    ELSE IF m = CmdCancel THEN "cancel_command"
    ELSE IF m = (IF v = "part_000" THEN BtnCancelRu ELSE BtnCancelUk)
         THEN "cancel_button"
    ELSE IF v = "bot" /\ m = BtnForm THEN "form"
    ELSE IF v = "bot" /\ m = BtnInfo THEN "info"
    ELSE IF v = "bot" /\ m = BtnComplaint THEN "complaint"
    ELSE IF v = "bot" /\ m = BtnBack THEN "back"
    ELSE IF m = CmdHelp THEN "help"
    ELSE "text"

(***************************************************************************)
(* The session and the handlers, each as the effect of its synchronous     *)
(* part: the new session, the message it sends, and where it then waits.   *)
(***************************************************************************)
\* A property that was never assigned.
Undefined == [ undefined |-> TRUE ]

\* session({ defaultSession }): no complaintData until a handler sets it.
defaultSession ==
    [ step |-> "idle", userData |-> EmptyObj, attempts |-> 0,
      complaintData |-> Undefined ]

\* ctx.from of the one user of the model: no username, no last name.
From ==
    [ id |-> UserId, username |-> << >>,
      first_name |-> << "T","a","r","a","s" >>, last_name |-> << >> ]

\* x || null
OrNull(x) == IF x = << >> THEN Null ELSE x

\* { telegram_id, username, first_name, last_name } of startForm,
\* startComplaintForm and the start handlers of bot-2.js and part_000
IdentityData ==
    [ telegram_id |-> From.id, username |-> OrNull(From.username),
      first_name |-> OrNull(From.first_name),
      last_name |-> OrNull(From.last_name) ]

Reply(kind, n) == [ kind |-> kind, n |-> n ]

NoReply == Reply("none", 0)

\* pc: where the handler waits after its synchronous part. "reply": for the
\* reply it sent, with nothing left to do after it; "sending": submitData or
\* submitComplaint waits for its first reply; "none": nothing awaited.
Effect(s, reply, type, pc, form) ==
    [ session |-> s, reply |-> reply, pc |-> pc, form |-> form,
      event |-> [ type |-> type, field |-> "none" ] ]

\* The same, for an event of the field step `field`.
FieldEffect(s, reply, type, pc, form, field) ==
    [ session |-> s, reply |-> reply, pc |-> pc, form |-> form,
      event |-> [ type |-> type, field |-> field ] ]

\* A limit test that gave up one failure later.
AttemptsExceeded(attempts) == attempts > 3

\* if (ctx.session.attempts >= 3)
AttemptsExhausted(attempts) == attempts >= 3

showMainMenu(s) ==
    Effect([ s EXCEPT !.step = "idle", !.userData = EmptyObj, !.attempts = 0 ],
           Reply("menu", 0), "menu", "reply", "none")

startComplaintForm(s) ==
    Effect([ s EXCEPT !.step = "awaiting_complaint_name", !.attempts = 0,
                      !.complaintData = IdentityData ],
           Reply("complaint_prompt", 0), "enter", "reply", "none")

\* startForm of bot.js, and the start handler of bot-2.js and part_000:
\* attempts is not assigned.
startForm(s) ==
    Effect([ s EXCEPT !.step = "awaiting_name", !.userData = IdentityData ],
           Reply("form_prompt", 0), "enter", "reply", "none")

\* A cancelProcess that left the counter of attempts as it was.
CancelKeepsAttempts(s) == [ s EXCEPT !.step = "idle", !.userData = EmptyObj ]

\* The session part of cancelProcess: complaintData is not assigned.
CancelledSession(s) ==
    [ s EXCEPT !.step = "idle", !.userData = EmptyObj, !.attempts = 0 ]

cancelProcess(s, type, message) ==
    FieldEffect(CancelledSession(s), Reply(message, 0), type, "reply", "none",
                s.step)

\* The failure branch the validating handlers share: count the attempt,
\* cancel at the limit, else ask again showing the count.
Rejected(s) ==
    LET t == [ s EXCEPT !.attempts = s.attempts + 1 ] IN
    IF AttemptsExhausted(t.attempts)
    THEN cancelProcess(t, "forced_cancel", "too_many_attempts")
    ELSE FieldEffect(t, Reply("reprompt", t.attempts), "invalid", "reply",
                     "none", s.step)

\* The success branch: store the value, move on, reset the counter.
Accepted(s, field, value, next) ==
    FieldEffect([ s EXCEPT !.userData = Put(s.userData, field, value),
                           !.step = next, !.attempts = 0 ],
                Reply("prompt", 0), "enter", "reply", "none", s.step)

\* The synchronous part of submitData: the first reply is sent and awaited.
submitData(s) ==
    FieldEffect(s, Reply("sending", 0), "submit", "sending", "application",
                s.step)

\* The synchronous part of submitComplaint.
submitComplaint(s) ==
    FieldEffect(s, Reply("sending", 0), "submit", "sending", "complaint",
                s.step)

handleNameInput(v, s, name) ==
    IF ~validateName(name) THEN Rejected(s)
    ELSE Accepted(s, "name", name,
                  IF v = "part_000" THEN "awaiting_phone" ELSE "awaiting_age")

handleAgeInput(s, age) == Accepted(s, "age", age, "awaiting_phone")

handlePhoneInput(v, s, phone) ==
    IF ~validatePhone(phone) THEN Rejected(s)
    ELSE Accepted(s, "phone", normalizePhone(phone),
                  IF v = "part_000" THEN "awaiting_email"
                  ELSE "awaiting_education")

handleEmailInput(s, email) ==
    IF ~validateEmail(email) THEN Rejected(s)
    ELSE Accepted(s, "email", ToLowerCase(email), "awaiting_message")

\* bot-2.js defines handleEducationInput twice; the second definition (which
\* stores the vacancy and moves to the message step) replaces the first.
handleEducationInput(v, s, text) ==
    IF v = "bot-2" THEN Accepted(s, "vacancy", text, "awaiting_message")
    ELSE Accepted(s, "education", text, "awaiting_vacancy")

\* bot-2.js has no handleVacancyInput: the call throws a TypeError, which
\* the error-handling middleware answers.
handleVacancyInput(v, s, vacancy) ==
    IF v = "bot-2"
    THEN FieldEffect(s, Reply("apology", 0), "exception", "reply", "none", s.step)
    ELSE Accepted(s, "vacancy", vacancy, "awaiting_message")

\* A message step that compared the text itself with the skip token.
CaseSensitiveSkip(v, s, message) ==
    IF message # (IF v = "part_000" THEN SkipRu ELSE SkipUk)
    THEN IF Len(message) > MaxMessageLength
         THEN FieldEffect(s, Reply("too_long", 0), "overlong", "reply", "none",
                          s.step)
         ELSE submitData([ s EXCEPT !.userData = Put(s.userData, "message", message) ])
    ELSE submitData(s)

handleMessageInput(v, s, message) ==
    IF ToLowerCase(message) # (IF v = "part_000" THEN SkipRu ELSE SkipUk)
    THEN IF Len(message) > MaxMessageLength
         THEN FieldEffect(s, Reply("too_long", 0), "overlong", "reply", "none",
                          s.step)
         ELSE submitData([ s EXCEPT !.userData = Put(s.userData, "message", message) ])
    ELSE submitData(s)

handleComplaintNameInput(s, name) ==
    FieldEffect([ s EXCEPT !.complaintData = Put(s.complaintData, "name", name),
                           !.step = "awaiting_complaint_text", !.attempts = 0 ],
                Reply("prompt", 0), "enter", "reply", "none", s.step)

handleComplaintTextInput(s, complaintText) ==
    IF Len(complaintText) > MaxComplaintLength THEN Rejected(s)
    ELSE IF Len(complaintText) < MinComplaintLength THEN Rejected(s)
    ELSE submitComplaint(
            [ s EXCEPT !.complaintData =
                           Put(s.complaintData, "complaint_text", complaintText) ])

\* The steps each variant's switch has a case for.
Cases(v) ==
    IF v = "bot"
    THEN { "awaiting_name", "awaiting_age", "awaiting_phone", "awaiting_education",
           "awaiting_vacancy", "awaiting_message", "awaiting_complaint_name",
           "awaiting_complaint_text" }
    ELSE IF v = "bot-2"
    THEN { "awaiting_name", "awaiting_age", "awaiting_phone", "awaiting_education",
           "awaiting_vacancy", "awaiting_message" }
    ELSE { "awaiting_name", "awaiting_phone", "awaiting_email", "awaiting_message" }

handleTextMessage(v, s, message) ==
    LET text == Trim(message)
        step == s.step
    IN  IF step \notin Cases(v)
        THEN \* default: bot.js answers only in the idle step
             IF v = "bot" /\ step # "idle"
             THEN Effect(s, NoReply, "other", "none", "none")
             ELSE Effect(s, Reply("hint", 0), "other", "reply", "none")
        ELSE CASE step = "awaiting_name" -> handleNameInput(v, s, text)
               [] step = "awaiting_age" -> handleAgeInput(s, text)
               [] step = "awaiting_phone" -> handlePhoneInput(v, s, text)
               [] step = "awaiting_email" -> handleEmailInput(s, text)
               [] step = "awaiting_education" -> handleEducationInput(v, s, text)
               [] step = "awaiting_vacancy" -> handleVacancyInput(v, s, text)
               [] step = "awaiting_message" -> handleMessageInput(v, s, text)
               [] step = "awaiting_complaint_name" -> handleComplaintNameInput(s, text)
               [] step = "awaiting_complaint_text" -> handleComplaintTextInput(s, text)

\* bot.on('contact')
handleContact(v, s, phone) ==
    IF s.step = "awaiting_phone" THEN handlePhoneInput(v, s, phone)
    ELSE Effect(s, NoReply, "other", "none", "none")

(***************************************************************************)
(* UserController: the block record                                        *)
(***************************************************************************)
\* { ...a, ...b }
Merge(a, b) ==
    [ k \in (DOMAIN a) \cup (DOMAIN b) |-> IF k \in DOMAIN b THEN b[k] ELSE a[k] ]

\* The durations (minutes) blockUser is called with in this model.
BlockDurations == { 1 }

\* The cache after blockUser(userId, reason, duration).
blockUser(cache, userId, reason, duration) ==
    LET blockData == [ blocked |-> TRUE, reason |-> reason, blockedAt |-> now,
                       blockedUntil |-> now + duration ]
        user == IF userId \in DOMAIN cache THEN cache[userId] ELSE EmptyObj
    IN  [ u \in (DOMAIN cache) \cup {userId} |->
            IF u = userId THEN Merge(user, blockData) ELSE cache[u] ]

\* The user is blocked and the block has not expired: what checkUserBlock
\* answers with blocked: true.
CurrentlyBlocked(userId) ==
    /\ userId \in DOMAIN userCache
    /\ Has(userCache[userId], "blocked")
    /\ userCache[userId]["blocked"]
    /\ ~(now > userCache[userId]["blockedUntil"])

Min(a, b) == IF a < b THEN a ELSE b

Max(a, b) == IF a < b THEN b ELSE a

\* stats.actions[name] || 0
ActionCount(stats, name) ==
    IF Has(stats.actions, name) THEN stats.actions[name] ELSE 0

\* stats.totalActions / Math.max(timeDiff, 1) > k, timeDiff being the minutes
\* since stats.firstSeen (the clock of the model counts whole minutes).
RateAbove(stats, k) == stats.totalActions > k * Max(now - stats.firstSeen, 1)

\* (stats.actions[name] || 0) / stats.totalActions > num / den; with
\* totalActions = 0 the quotient is NaN, which is greater than nothing.
ShareAbove(stats, name, num, den) ==
    IF stats.totalActions = 0 THEN FALSE
    ELSE den * ActionCount(stats, name) > num * stats.totalActions

\* The score of calculateRiskScore before Math.min(score, 100);
\* undefined > n is false, as a count of 0 is.
RiskPoints(stats) ==
    (IF RateAbove(stats, 5) THEN 30 ELSE 0)
    + (IF RateAbove(stats, 10) THEN 40 ELSE 0)
    + (IF ShareAbove(stats, "validation_failed", 1, 2) THEN 25 ELSE 0)
    + (IF ShareAbove(stats, "cancel", 3, 10) THEN 20 ELSE 0)
    + (IF ActionCount(stats, "start") > 10 THEN 15 ELSE 0)
    + (IF ActionCount(stats, "submit_attempt") > 5 THEN 25 ELSE 0)

\* A score that is not capped.
UncappedRiskScore(stats) == RiskPoints(stats)

calculateRiskScore(stats) == Min(RiskPoints(stats), 100)

\* user.blocked, for an entry of userCache
IsBlocked(user) == Has(user, "blocked") /\ user["blocked"]

\* map.set(key, value)
MapSet(map, key, value) ==
    [ k \in (DOMAIN map) \cup { key } |-> IF k = key THEN value ELSE map[k] ]

\* The map without the keys of gone
MapDelete(map, gone) == [ k \in (DOMAIN map) \ gone |-> map[k] ]

\* delete obj[k], for each k of keys
Drop(obj, keys) == [ k \in (DOMAIN obj) \ keys |-> obj[k] ]

\* userCache after setUser(userId, data): the entry is replaced by the data
\* with lastActivity and createdAt (that of the entry replaced, if any).
setUser(cache, userId, data) ==
    LET createdAt == IF userId \notin DOMAIN cache THEN now
                     ELSE IF Has(cache[userId], "createdAt")
                          THEN cache[userId]["createdAt"]
                     ELSE Undefined
    IN  MapSet(cache, userId,
               Put(Put(data, "lastActivity", now), "createdAt", createdAt))

\* An updateUserStats that counted the action and not the total.
TotalNotCounted(stats, userId, action) ==
    LET old == IF userId \in DOMAIN stats THEN stats[userId]
               ELSE [ totalActions |-> 0, actions |-> EmptyObj,
                      firstSeen |-> now, lastSeen |-> now ]
    IN  MapSet(stats, userId,
               [ old EXCEPT !.actions = Put(@, action, ActionCount(old, action) + 1),
                            !.lastSeen = now ])

\* userStats after updateUserStats(userId, action)
updateUserStats(stats, userId, action) ==
    LET old == IF userId \in DOMAIN stats THEN stats[userId]
               ELSE [ totalActions |-> 0, actions |-> EmptyObj,
                      firstSeen |-> now, lastSeen |-> now ]
    IN  MapSet(stats, userId,
               [ old EXCEPT !.totalActions = @ + 1,
                            !.actions = Put(@, action, ActionCount(old, action) + 1),
                            !.lastSeen = now ])

\* An updateActivity that blocked the user it is called for.
BlockingActivity(cache, userId, action) ==
    blockUser(cache, userId, "suspicious", 1)

\* userCache after updateActivity(userId, action): an entry that exists gets
\* lastActivity and lastAction.
updateActivity(cache, userId, action) ==
    IF userId \in DOMAIN cache
    THEN MapSet(cache, userId,
                Put(Put(cache[userId], "lastActivity", now), "lastAction", action))
    ELSE cache

\* What checkSuspiciousActivity(userId) returns.
checkSuspiciousActivity(userId) ==
    IF userId \notin DOMAIN userStats THEN [ suspicious |-> FALSE ]
    ELSE LET stats == userStats[userId]
             indicators ==
                 (IF RateAbove(stats, 10) THEN << "high_frequency" >> ELSE << >>)
                 \o (IF ActionCount(stats, "submit_attempt") > 5
                     THEN << "multiple_submit_attempts" >> ELSE << >>)
                 \o (IF ActionCount(stats, "cancel") > 10
                     THEN << "excessive_cancellations" >> ELSE << >>)
         IN  [ suspicious |-> Len(indicators) > 0, indicators |-> indicators,
               riskScore |-> calculateRiskScore(stats) ]

\* The block of userId has run out: new Date() > user.blockedUntil
BlockExpired(cache, userId) ==
    /\ userId \in DOMAIN cache
    /\ IsBlocked(cache[userId])
    /\ now > cache[userId]["blockedUntil"]

\* A checkUserBlock that reported the expiry and left the entry as it was.
UncheckedCache(cache, userId) == cache

\* userCache after checkUserBlock(userId): a block that has run out is
\* taken off the entry.
checkUserBlockCache(cache, userId) ==
    IF BlockExpired(cache, userId)
    THEN MapSet(cache, userId,
                Drop(Put(cache[userId], "blocked", FALSE),
                     { "reason", "blockedAt", "blockedUntil" }))
    ELSE cache

\* What checkUserBlock(userId) returns; remainingTime in minutes.
checkUserBlock(cache, userId) ==
    IF userId \notin DOMAIN cache \/ ~IsBlocked(cache[userId]) \/ BlockExpired(cache, userId)
    THEN [ blocked |-> FALSE ]
    ELSE [ blocked |-> TRUE, reason |-> cache[userId]["reason"],
           blockedUntil |-> cache[userId]["blockedUntil"],
           remainingTime |-> cache[userId]["blockedUntil"] - now ]

\* 24 * 60 minutes
DayMinutes == 24 * 60

\* The users cleanupCache deletes: no lastActivity, or one before the cutoff.
Stale(cache) ==
    { u \in DOMAIN cache :
        \/ ~Has(cache[u], "lastActivity")
        \/ cache[u]["lastActivity"] < now - DayMinutes }

\* A sweep that emptied the cache.
EmptiedCache(cache) == EmptyObj

\* userCache after cleanupCache()
cleanupCache(cache) == MapDelete(cache, Stale(cache))

(***************************************************************************)
(* The bot: one action for each handler of setupHandlers, and one for a    *)
(* pending handler going on after an await.                                *)
(***************************************************************************)
NoEvent ==
    [ type |-> "none", field |-> "none", during |-> 0, touch |-> FALSE,
      blocked |-> FALSE, changed |-> FALSE ]

\* What the last step was, for the properties: eff.event, how many earlier
\* handlers of the user were unfinished when it ran, whether it read or
\* wrote ctx.session, whether the user was blocked then, and whether it
\* changed the session.
Observed(eff, touch) ==
    [ type |-> eff.event.type, field |-> eff.event.field,
      during |-> BagCardinality(inflight), touch |-> touch,
      blocked |-> CurrentlyBlocked(From.id),
      changed |-> (eff.session # session) ]

Pending(pc, form) == [ pc |-> pc, form |-> form ]

\* The middleware chain of setupMiddleware (rate limit, session, error
\* handling, logging) hands every update to its handler; no middleware
\* consults UserController or waits for an earlier update of the chat.
Dispatch(eff, touch) ==
    /\ BagCardinality(inflight) < MaxInFlight
    /\ session' = eff.session
    /\ lastReply' = IF eff.reply = NoReply THEN lastReply ELSE eff.reply
    /\ lastEvent' = Observed(eff, touch)
    /\ inflight' = IF eff.pc = "none" THEN inflight
                   ELSE inflight (+) SetToBag({ Pending(eff.pc, eff.form) })
    /\ fails' = IF eff.event.type \in { "start", "enter" } THEN 0
                ELSE IF eff.event.type \in { "invalid", "forced_cancel" }
                     THEN fails + 1
                ELSE fails
    /\ run' = IF eff.event.type \in { "start", "enter" }
              THEN (IF eff.session.attempts = 0 THEN 0 ELSE -1)
              ELSE IF eff.event.type \in { "invalid", "forced_cancel" }
                   THEN (IF run >= 0 THEN run + 1 ELSE -1)
              ELSE IF touch THEN -1
              ELSE run
    /\ UNCHANGED << variant, calls, userCache, now >>
    /\ UNCHANGED pipeVars
    /\ UNCHANGED sideVars

\* bot.start: the main menu in bot.js, the form in bot-2.js and part_000
StartCommand ==
    \E m \in Messages(variant) :
        /\ Route(variant, m) = "start"
        /\ Dispatch(IF variant = "bot" THEN showMainMenu(session)
                    ELSE [ startForm(session) EXCEPT
                             !.event = [ type |-> "start", field |-> session.step ] ],
                    TRUE)

\* bot.command('cancel')
CancelCommand ==
    \E m \in Messages(variant) :
        /\ Route(variant, m) = "cancel_command"
        /\ Dispatch(cancelProcess(session, "cancel", "cancelled"), TRUE)

\* bot.hears(the cancel button)
CancelButton ==
    \E m \in Messages(variant) :
        /\ Route(variant, m) = "cancel_button"
        /\ Dispatch(cancelProcess(session, "cancel", "cancelled"), TRUE)

\* bot.hears(the form button), bot.js only
FormButton ==
    \E m \in Messages(variant) :
        /\ Route(variant, m) = "form"
        /\ Dispatch([ startForm(session) EXCEPT
                        !.event = [ type |-> "start", field |-> session.step ] ],
                    TRUE)

\* bot.hears(the complaint button), bot.js only
ComplaintButton ==
    \E m \in Messages(variant) :
        /\ Route(variant, m) = "complaint"
        /\ Dispatch([ startComplaintForm(session) EXCEPT
                        !.event = [ type |-> "start", field |-> session.step ] ],
                    TRUE)

\* bot.hears(back to the menu), bot.js only
BackButton ==
    \E m \in Messages(variant) :
        /\ Route(variant, m) = "back"
        /\ Dispatch(showMainMenu(session), TRUE)

\* bot.hears(an information button), bot.js only: a reply, no session access
InfoButton ==
    \E m \in Messages(variant) :
        /\ Route(variant, m) = "info"
        /\ Dispatch(Effect(session, Reply("info", 0), "info", "reply", "none"), FALSE)

\* bot.help
HelpCommand ==
    \E m \in Messages(variant) :
        /\ Route(variant, m) = "help"
        /\ Dispatch(Effect(session, Reply("help", 0), "info", "reply", "none"), FALSE)

\* bot.on('text')
TextMessage ==
    \E m \in Messages(variant) :
        /\ Route(variant, m) = "text"
        /\ Dispatch(handleTextMessage(variant, session, m), TRUE)

\* bot.on('text'), the message being the word that skips the last step
SkipText ==
    \E m \in { IF variant = "part_000" THEN SkipRu ELSE SkipUk } :
        /\ Route(variant, m) = "text"
        /\ Dispatch(handleTextMessage(variant, session, m), TRUE)

\* bot.on('contact')
Contact ==
    \E phone \in ContactPhones :
        Dispatch(handleContact(variant, session, phone), TRUE)

\* The values submitComplaint adds to the record before sending it.
SubmittedAt == << "timestamp" >>

ComplaintType == << "c","o","m","p","l","a","i","n","t" >>

\* Records the model keeps of the calls of submitUserData.
MaxCalls == 2

\* What the awaited call of the pipeline can end with, as the handler sees
\* it: a result with success true, a result with success false, or a throw.
Outcomes == { "success", "failure", "exception" }

\* wpAPI.submitComplaint is not a method of WordPressAPI: the call throws.
ComplaintOutcomes == { "exception" }

\* A submitComplaint that told the user of a failure.
ComplaintAckSurfaced(outcome) ==
    IF outcome = "success" THEN Reply("complaint_ok", 1)
    ELSE Reply("complaint_error", 0)

\* The message submitComplaint sends for each outcome: with the complaint
\* number (n = 1) after a success result, without it otherwise.
ComplaintAck(outcome) ==
    CASE outcome = "success" -> Reply("complaint_ok", 1)
      [] outcome = "failure" -> Reply("complaint_ok", 0)
      [] outcome = "exception" -> Reply("complaint_ok", 0)

\* A submitData that told the user of a success whatever happened.
ApplicationAckMasked(outcome) == Reply("app_ok", 0)

\* The message submitData sends for each outcome: a failure result is thrown
\* and lands in the catch block as an exception of the call does.
ApplicationAck(outcome) ==
    CASE outcome = "success" -> Reply("app_ok", 0)
      [] outcome = "failure" -> Reply("app_error", 0)
      [] outcome = "exception" -> Reply("app_error", 0)

\* The results a call of submitUserData can return for a record: the failure
\* of the local validation, or for a record that is sent the success result
\* of a 2xx answer or the failure of an answer that is not retried.
SubmitResults(record) ==
    IF ~validateSubmissionData(Payload(record))
    THEN { FailureResult("Invalid submission data") }
    ELSE { SuccessResult(resp) : resp \in { r \in Responses : IsSuccess(r) } }
         \cup { FailureResult("request failed") }

\* inflight without the handler h, and with h gone on to wait at pc
Without(h) == inflight (-) SetToBag({ h })

MovedTo(h, pc) == Without(h) (+) SetToBag({ Pending(pc, h.form) })

\* The session after the "reset of the session" submitData and
\* submitComplaint end with.
ResetSession(s, form) ==
    IF form = "complaint"
    THEN [ s EXCEPT !.step = "idle", !.complaintData = EmptyObj, !.attempts = 0 ]
    ELSE [ s EXCEPT !.step = "idle", !.userData = EmptyObj, !.attempts = 0 ]

\* A pending handler goes on after the await it was waiting at.
\*   "reply":      its last reply is delivered; the handler is finished.
\*   "sending":    submitComplaint stamps the record and calls
\*                 wpAPI.submitComplaint; the TypeError lands in the catch
\*                 block, which sends the acknowledgement.  submitData calls
\*                 wpAPI.submitUserData with ctx.session.userData as it is
\*                 now (the model follows one call of the pipeline at a
\*                 time: a second submitData stays at its first reply until
\*                 the result of the first has been shown).
\*   "delivering": submitUserData returns one of the results it can return
\*                 for the record (SpecPipeline follows the call step by
\*                 step); submitData sends the success message or
\*                 (result.success false) the error message.
\*   "ack":        the last reply is delivered; the session is reset.
Resume ==
    \E h \in BagToSet(inflight) :
        /\ IF h.pc = "reply"
           THEN /\ inflight' = Without(h)
                /\ UNCHANGED << session, lastReply, calls, run >>
                /\ UNCHANGED pipeVars
                /\ lastEvent' = [ NoEvent EXCEPT !.type = "finish" ]
           ELSE IF h.pc = "sending" /\ h.form = "complaint"
           THEN /\ inflight' = MovedTo(h, "ack")
                /\ session' =
                     IF session.complaintData = Undefined THEN session
                     ELSE [ session EXCEPT !.complaintData =
                              Put(Put(session.complaintData, "submitted_at", SubmittedAt),
                                  "type", ComplaintType) ]
                /\ \E outcome \in ComplaintOutcomes :
                      lastReply' = ComplaintAck(outcome)
                /\ lastEvent' = [ NoEvent EXCEPT !.type = "ack", !.field = h.form ]
                /\ UNCHANGED << calls, run >>
                /\ UNCHANGED pipeVars
           ELSE IF h.pc = "sending"
           THEN /\ Len(calls) < MaxCalls
                /\ stack = << >>
                /\ \A other \in BagToSet(inflight) : other.pc # "delivering"
                /\ inflight' = MovedTo(h, "delivering")
                /\ calls' = Append(calls, session.userData)
                /\ returned' = << >>
                /\ lastEvent' = [ NoEvent EXCEPT !.type = "call", !.field = h.form ]
                /\ UNCHANGED << session, lastReply, run >>
                /\ UNCHANGED << userData, stack, ret, posts, answers, waited >>
           ELSE IF h.pc = "delivering"
           THEN /\ inflight' = MovedTo(h, "ack")
                /\ \E result \in SubmitResults(calls[Len(calls)]) :
                      /\ returned' = << result >>
                      /\ lastReply' = ApplicationAck(IF result.success
                                                     THEN "success" ELSE "failure")
                /\ lastEvent' = [ NoEvent EXCEPT !.type = "ack", !.field = h.form ]
                /\ UNCHANGED << session, calls, run >>
                /\ UNCHANGED << userData, stack, ret, posts, answers, waited >>
           ELSE /\ inflight' = Without(h)
                /\ session' = ResetSession(session, h.form)
                /\ lastEvent' = [ NoEvent EXCEPT !.type = "reset", !.field = h.form ]
                /\ run' = -1
                /\ UNCHANGED << lastReply, calls >>
                /\ UNCHANGED pipeVars
        /\ UNCHANGED << variant, fails, userCache, now >>
        /\ UNCHANGED sideVars

\* An operator blocks the user.
BlockUser ==
    /\ \E duration \in BlockDurations :
          userCache' = blockUser(userCache, From.id, "abuse", duration)
    /\ UNCHANGED << variant, session, inflight, lastReply, lastEvent, fails, run,
                    calls, now >>
    /\ UNCHANGED pipeVars
    /\ UNCHANGED sideVars

\* A minute passes.
Tick ==
    /\ now < MaxTime
    /\ now' = now + 1
    /\ UNCHANGED << variant, session, inflight, lastReply, lastEvent, fails, run,
                    calls, userCache >>
    /\ UNCHANGED pipeVars
    /\ UNCHANGED sideVars

(***************************************************************************)
(* Specifications                                                          *)
(***************************************************************************)
PipeIdle ==
    /\ stack = << >>
    /\ ret = << >>
    /\ posts = 0
    /\ answers = << >>
    /\ waited = << >>
    /\ returned = << >>

\* No function call is followed, and no statistics are kept.
NoInput == [ kind |-> "none" ]

NoOutput == [ fn |-> "none" ]

SideIdle ==
    /\ ops = 0
    /\ userStats = EmptyObj
    /\ input = NoInput
    /\ output = NoOutput

\* No conversation has begun.
BotIdle ==
    /\ session = defaultSession
    /\ inflight = EmptyBag
    /\ lastReply = NoReply
    /\ lastEvent = NoEvent
    /\ fails = 0
    /\ run = -1
    /\ calls = << >>

BotInit ==
    /\ SideIdle
    /\ variant \in Variants
    /\ BotIdle
    /\ userCache = EmptyObj
    /\ now = 0

\* The conversation of one user with one of the three bots.
Init ==
    /\ BotInit
    /\ userData = EmptyObj
    /\ PipeIdle

Next ==
    \/ StartCommand
    \/ CancelCommand
    \/ CancelButton
    \/ FormButton
    \/ ComplaintButton
    \/ BackButton
    \/ InfoButton
    \/ HelpCommand
    \/ TextMessage
    \/ Contact
    \/ Resume

Spec == Init /\ [][Next]_vars

\* The records a form has collected when its last step is reached: the
\* identity data of startForm and the fields submitUserData reads.
CollectedRecords == { Merge(IdentityData, r) : r \in UserRecords }

\* The last step of the application form, from the moment handleMessageInput
\* can be called.  (No
\* conversation of Spec gets this far: validatePhone accepts no number.)
SubmitInit ==
    /\ SideIdle
    /\ variant \in Variants
    /\ \E r \in CollectedRecords :
          session = [ defaultSession EXCEPT !.step = "awaiting_message",
                                            !.userData = r ]
    /\ inflight = EmptyBag
    /\ lastReply = NoReply
    /\ lastEvent = NoEvent
    /\ fails = 0
    /\ run = -1
    /\ calls = << >>
    /\ userCache = EmptyObj
    /\ now = 0
    /\ userData = EmptyObj
    /\ PipeIdle

SubmitNext ==
    \/ TextMessage
    \/ SkipText
    \/ Resume

SpecSubmit == SubmitInit /\ [][SubmitNext]_vars

\* What the user answers at the steps that validate nothing.
AgeText == << "2","5" >>

EducationText == << "B","S","c" >>

VacancyText == << "d","r","i","v","e","r" >>

\* The session after the handler of s.step has accepted an answer: the
\* handler applied to a valid answer, the success branch of handlePhoneInput
\* at the phone step (validatePhone accepts no number).
RECURSIVE AnsweredFrom(_, _)
AnsweredFrom(v, s) ==
    IF s.step \in { "awaiting_message", "awaiting_complaint_text" } THEN { s }
    ELSE { s } \cup AnsweredFrom(v,
            CASE s.step = "awaiting_name" -> handleNameInput(v, s, ValidNameText).session
              [] s.step = "awaiting_age" -> handleAgeInput(s, AgeText).session
              [] s.step = "awaiting_phone" ->
                    Accepted(s, "phone", IntlPhoneText,
                             IF v = "part_000" THEN "awaiting_email"
                             ELSE "awaiting_education").session
              [] s.step = "awaiting_email" -> handleEmailInput(s, GoodEmailText).session
              [] s.step = "awaiting_education" ->
                    handleEducationInput(v, s, EducationText).session
              [] s.step = "awaiting_vacancy" ->
                    handleVacancyInput(v, s, VacancyText).session
              [] s.step = "awaiting_complaint_name" ->
                    handleComplaintNameInput(s, ValidNameText).session)

\* The steps whose handler counts failed attempts.
ValidatingSteps ==
    { "awaiting_name", "awaiting_phone", "awaiting_email", "awaiting_complaint_text" }

\* The sessions of variant v in the middle of a form: every step the
\* handlers lead to from the start of the form, with the attempts a
\* validating step can have counted.
FormSessions(v) ==
    LET started == AnsweredFrom(v, startForm(defaultSession).session)
                   \cup (IF v = "bot"
                         THEN AnsweredFrom(v, startComplaintForm(defaultSession).session)
                         ELSE { })
    IN  { [ s EXCEPT !.attempts = a ] :
            s \in started,
            a \in 0 .. 2 }

\* One handler at a time, from a session in the middle of a form.
StepsInit ==
    /\ SideIdle
    /\ variant \in Variants
    /\ session \in { s \in FormSessions(variant) :
                        s.attempts = 0 \/ s.step \in ValidatingSteps }
    /\ inflight = EmptyBag
    /\ lastReply = NoReply
    /\ lastEvent = NoEvent
    /\ fails = 0
    /\ run = -1
    /\ calls = << >>
    /\ userCache = EmptyObj
    /\ now = 0
    /\ userData = EmptyObj
    /\ PipeIdle

\* What the user answers at a step: an answer the step accepts (at the
\* phone step the two numbers the prompt shows) and, where the handler
\* tests the answer, answers it rejects.
Answers(v, step) ==
    CASE step = "awaiting_name" -> { ValidNameText, BadText }
      [] step = "awaiting_age" -> { AgeText }
      [] step = "awaiting_phone" -> { IntlPhoneText, NationalPhoneText, BadText }
      [] step = "awaiting_email" -> { GoodEmailText, BadText }
      [] step = "awaiting_education" -> { EducationText }
      [] step = "awaiting_vacancy" -> { VacancyText }
      [] step = "awaiting_message" ->
            { ValidNameText, LongText, IF v = "part_000" THEN SkipRu ELSE SkipUk }
      [] step = "awaiting_complaint_name" -> { ValidNameText }
      [] step = "awaiting_complaint_text" -> { ValidNameText, BadText, LongText }
      [] OTHER -> { BadText }

\* bot.on('text'), the message being an answer to the step the session is at
StepAnswer ==
    \E m \in Answers(variant, session.step) :
        /\ Route(variant, m) = "text"
        /\ Dispatch(handleTextMessage(variant, session, m), TRUE)

StepsNext ==
    \/ StepAnswer
    \/ Contact
    \/ CancelCommand
    \/ Resume

SpecSteps == StepsInit /\ [][StepsNext]_vars

\* The same with an operator who may block the user, and the clock.
NextModerated == Next \/ BlockUser \/ Tick

SpecModerated == Init /\ [][NextModerated]_vars

\* One call of submitUserData, for each record and each behaviour of the sink.
PipeInit ==
    /\ userData \in UserRecords
    /\ stack = << SubmitFrame >>
    /\ ret = << >>
    /\ posts = 0
    /\ answers = << >>
    /\ waited = << >>
    /\ returned = << >>
    /\ BotInit
    /\ variant = "bot"

PipeNext ==
    \/ SubmitRejectLocally
    \/ SubmitPost
    \/ RetryCheck
    \/ RetryCall
    \/ Return

\* A pending call goes on: promises settle and timers fire.
SpecPipeline == PipeInit /\ [][PipeNext]_vars /\ WF_vars(PipeNext)

(***************************************************************************)
(* The functions, each called once with an input of a bounded set          *)
(***************************************************************************)
\* s with c inserted after its first i elements
InsertAt(s, i, c) == SubSeq(s, 1, i) \o << c >> \o SubSeq(s, i + 1, Len(s))

RuNationalPhoneText == << "8","9","1","6","1","2","3","4","5","6","7" >>

ShortPhoneText == << "0","5","0","1","2","3" >>

BasePhones ==
    { IntlPhoneText, NationalPhoneText, ForeignPhoneText, RuNationalPhoneText,
      ShortPhoneText }

\* The phone numbers the validators are called with: each base number as it
\* is, with a space or a hyphen in it, and with parentheses around three of
\* its characters.
PhoneInputs ==
    BasePhones
    \cup { InsertAt(p, i, c) : p \in BasePhones, i \in { 2, 4 }, c \in { " ", "-" } }
    \cup { InsertAt(InsertAt(p, i, "("), i + 4, ")") : p \in BasePhones, i \in { 0, 1, 3 } }

\* The upper-case letter of a lower-case Latin letter.
UpperChar(c) ==
    IF c \in Range(LatinLower)
    THEN LatinUpper[CHOOSE i \in DOMAIN LatinLower : LatinLower[i] = c]
    ELSE c

\* s with its Latin letters in every combination of upper and lower case.
CaseVariants(s) ==
    { [ i \in DOMAIN s |-> IF i \in up THEN UpperChar(s[i]) ELSE s[i] ] :
        up \in SUBSET { i \in DOMAIN s : s[i] \in Range(LatinLower) } }

TestEmailText ==
    << "t","e","s","t","@","e","x","a","m","p","l","e",".","c","o","m" >>

\* The words the claim names of the deny-list of validateEmail.
DeniedLocalWords ==
    { << "t","e","s","t" >>, << "s","p","a","m" >>, << "f","a","k","e" >>,
      << "n","o","r","e","p","l","y" >>, << "n","o","-","r","e","p","l","y" >> }

\* The addresses validateEmail is called with: test@example.com and each
\* denied word as a local part, and inside one, in every letter case; and
\* two addresses with nothing wrong with them.
EmailInputs ==
    CaseVariants(TestEmailText)
    \cup { v \o << "@","e","x",".","c","o","m" >> :
             v \in UNION { CaseVariants(w) : w \in DeniedLocalWords } }
    \cup { << "j" >> \o v \o << "1","@","E","x",".","c","o","m" >> :
             v \in UNION { CaseVariants(w) : w \in DeniedLocalWords } }
    \cup { GoodEmailText, << "J","o","e","@","E","X",".","c","o","m" >> }

\* The texts validateMessage is called with: plain ones, one of 1000 and one
\* of 1001 characters, runs of 10 and of 11 equal characters, two and three
\* links in a row, a spam word, markup, and sums of money.
LinkText == << "h","t","t","p",":","/","/","a" >>

MessageTexts ==
    { ValidNameText, BadText,
      [ i \in 1 .. 1000 |-> IF i % 2 = 0 THEN "a" ELSE "b" ],
      [ i \in 1 .. 1001 |-> IF i % 2 = 0 THEN "a" ELSE "b" ],
      Repeat("a", 10), Repeat("a", 11),
      LinkText \o LinkText, LinkText \o LinkText \o LinkText,
      LinkText \o << " " >> \o LinkText \o << " " >> \o LinkText,
      << "CY_s","cy_k","cy_i","cy_d","cy_k","cy_a" >>,
      << "<","S","c","r","i","p","t",">" >>,
      << "$","5" >>, << "5","$" >>, << "5","cy_r","cy_u","cy_b" >>, << "5" >> }

\* The values the validators are called with: null, undefined, numbers,
\* booleans, an object, the empty string and other strings.
JsValues ==
    { JsNull, JsUndefined, [ type |-> "object" ],
      [ type |-> "number", n |-> 0 ], [ type |-> "number", n |-> 5 ],
      [ type |-> "boolean", b |-> FALSE ], [ type |-> "boolean", b |-> TRUE ] }
    \cup { JsString(t) : t \in { << >>, << " " >>, IntlPhoneText, RuNationalPhoneText,
                                   GoodEmailText, TestEmailText } \cup MessageTexts }

\* The action names counted in the statistics, and how often each occurs in
\* the statistics records calculateRiskScore is called with.
ActionNames == { "start", "cancel", "validation_failed", "submit_attempt", "help" }

ActionCounts == { 0, 1, 6, 11 }

\* The record updateUserStats keeps for counts c: totalActions is their sum
\* and actions has an entry for each action that occurred.
StatsOf(c, seen) ==
    [ totalActions |-> c["start"] + c["cancel"] + c["validation_failed"]
                       + c["submit_attempt"] + c["help"],
      actions |-> [ a \in { n \in ActionNames : c[n] > 0 } |-> c[a] ],
      firstSeen |-> seen, lastSeen |-> seen ]

StatsInputs == { StatsOf(c, 0) : c \in [ ActionNames -> ActionCounts ] }

\* The minutes passed since firstSeen when calculateRiskScore is called.
ElapsedMinutes == 0..3

\* The letter c in upper case.
ToUpperChar(c) ==
    IF c \in Range(LowerCase)
    THEN UpperCase[CHOOSE i \in DOMAIN LowerCase : LowerCase[i] = c]
    ELSE c

\* The skip token of variant v as the user may type it: in lower case, in
\* upper case, capitalised, and with every other letter in upper case.
SkipTokens(v) ==
    LET skip == IF v = "part_000" THEN SkipRu ELSE SkipUk
    IN  { skip,
          [ i \in DOMAIN skip |-> ToUpperChar(skip[i]) ],
          [ i \in DOMAIN skip |-> IF i = 1 THEN ToUpperChar(skip[i]) ELSE skip[i] ],
          [ i \in DOMAIN skip |-> IF i % 2 = 0 THEN ToUpperChar(skip[i])
                                  ELSE skip[i] ] }

\* What handleMessageInput is called with: a session at the message step,
\* and a skip token, a message or an over-length message.
MessageInputs ==
    { [ kind |-> "message", v |-> v, session |-> s, text |-> t ] :
        v \in Variants,
        s \in { fs \in UNION { FormSessions(w) : w \in Variants } :
                  fs.step = "awaiting_message" },
        t \in UNION { SkipTokens(w) : w \in Variants }
              \cup { ValidNameText, LongText } }

FunctionsInit ==
    /\ \/ \E p \in PhoneInputs : input = [ kind |-> "phone", text |-> p ]
       \/ \E mi \in MessageInputs : input = mi
       \/ \E st \in StatsInputs : input = [ kind |-> "stats", stats |-> st ]
       \/ \E e \in EmailInputs : input = [ kind |-> "email", text |-> e ]
       \/ \E v \in JsValues : input = [ kind |-> "value", value |-> v ]
    /\ output = NoOutput
    /\ ops = 0
    /\ userStats = EmptyObj
    /\ userCache = EmptyObj
    /\ now \in (IF input.kind = "stats" THEN ElapsedMinutes ELSE { 0 })
    /\ variant = "bot"
    /\ BotIdle
    /\ userData = EmptyObj
    /\ PipeIdle

\* The function fn is called with the input and returns value.
Returns(fn, value) ==
    /\ output' = [ fn |-> fn, value |-> value ]
    /\ UNCHANGED << userStats, input, ops >>
    /\ UNCHANGED botVars
    /\ UNCHANGED pipeVars

ValidatePhone ==
    /\ input.kind = "phone"
    /\ Returns("validatePhone", validatePhone(input.text))

NormalizePhone ==
    /\ input.kind = "phone"
    /\ Returns("normalizePhone", normalizePhone(input.text))

CalculateRiskScore ==
    /\ input.kind = "stats"
    /\ Returns("calculateRiskScore", calculateRiskScore(input.stats))

ValidateEmail ==
    /\ input.kind = "email"
    /\ Returns("validateEmail", validateEmail(input.text))

\* A validator is called with a value of any type.
Completes(name, completion) ==
    /\ input.kind = "value"
    /\ output' = [ fn |-> "validator", name |-> name, threw |-> completion.threw,
                   value |-> completion.value ]
    /\ UNCHANGED << userStats, input, ops >>
    /\ UNCHANGED botVars
    /\ UNCHANGED pipeVars

NameValidator == Completes("validateName", validateNameCall(input.value))

PhoneValidator == Completes("validatePhone", validatePhoneCall(input.value))

EmailValidator == Completes("validateEmail", validateEmailCall(input.value))

MessageValidator == Completes("validateMessage", validateMessageCall(input.value))

\* handleMessageInput(ctx, message), up to its first await
HandleMessageInput ==
    /\ input.kind = "message"
    /\ Returns("handleMessageInput",
               handleMessageInput(input.v, input.session, input.text))

FunctionsNext ==
    \/ HandleMessageInput
    \/ ValidatePhone
    \/ NormalizePhone
    \/ CalculateRiskScore
    \/ ValidateEmail
    \/ NameValidator
    \/ PhoneValidator
    \/ EmailValidator
    \/ MessageValidator

SpecFunctions == FunctionsInit /\ [][FunctionsNext]_vars

(***************************************************************************)
(* UserController: one action for each method, and the clock               *)
(***************************************************************************)
OtherUserId == 8

\* The users the methods are called for.
Users == { UserId, OtherUserId }

\* The actions updateActivity and updateUserStats are called with.
ActivityNames == { "submit_attempt" }

\* The data setUser is called with.
ProfileData == { [ name |-> ValidNameText ] }

\* Calls of UserController's methods the model follows.
MaxOps == 4

\* The submit attempts the user has made when the model begins.
EarlierAttempts == 5

\* The instants (minutes) at which the methods are called.
Instants == { 0, 2, DayMinutes, DayMinutes + 2 }

\* A method was called for user u (args) and returned value.
Called(fn, args, value) ==
    /\ ops < MaxOps
    /\ ops' = ops + 1
    /\ input' = args
    /\ output' = [ fn |-> fn, value |-> value ]
    /\ UNCHANGED << variant, session, inflight, lastReply, lastEvent, fails, run,
                    calls, now >>
    /\ UNCHANGED pipeVars

SetUser ==
    \E u \in Users, data \in ProfileData :
        /\ userCache' = setUser(userCache, u, data)
        /\ userStats' = updateUserStats(userStats, u, "data_updated")
        /\ Called("setUser", [ kind |-> "call", user |-> u ], "none")

UpdateActivity ==
    \E u \in Users, action \in ActivityNames :
        /\ userCache' = updateActivity(userCache, u, action)
        /\ userStats' = updateUserStats(userStats, u, action)
        /\ Called("updateActivity", [ kind |-> "call", user |-> u ], "none")

UpdateUserStats ==
    \E u \in Users, action \in ActivityNames :
        /\ userStats' = updateUserStats(userStats, u, action)
        /\ userCache' = userCache
        /\ Called("updateUserStats", [ kind |-> "call", user |-> u ], "none")

CheckSuspiciousActivity ==
    \E u \in Users :
        /\ UNCHANGED << userCache, userStats >>
        /\ Called("checkSuspiciousActivity", [ kind |-> "call", user |-> u ],
                  checkSuspiciousActivity(u))

BlockAUser ==
    \E u \in Users, duration \in BlockDurations :
        /\ userCache' = blockUser(userCache, u, "abuse", duration)
        /\ userStats' = userStats
        /\ Called("blockUser", [ kind |-> "call", user |-> u ], "none")

\* checkUserBlock; the input records whether the block had run out.
CheckUserBlock ==
    \E u \in Users :
        /\ userCache' = checkUserBlockCache(userCache, u)
        /\ userStats' = userStats
        /\ Called("checkUserBlock",
                  [ kind |-> "call", user |-> u,
                    expired |-> BlockExpired(userCache, u) ],
                  checkUserBlock(userCache, u))

\* cleanupCache, from the timer of the constructor; value is `cleaned`, and
\* the input records the cache the sweep went through.
CleanupCache ==
    /\ userCache' = cleanupCache(userCache)
    /\ userStats' = MapDelete(userStats, Stale(userCache))
    /\ Called("cleanupCache", [ kind |-> "call", cache |-> userCache ],
              Cardinality(Stale(userCache)))

\* Time passes.
Elapse ==
    \E t \in Instants :
        /\ t > now
        /\ now' = t
        /\ input' = NoInput
        /\ output' = NoOutput
        /\ ops' = ops
        /\ UNCHANGED << variant, session, inflight, lastReply, lastEvent, fails,
                        run, calls, userCache, userStats >>
        /\ UNCHANGED pipeVars

\* The store at time 0 after EarlierAttempts calls of
\* updateUserStats(UserId, "submit_attempt").
UsersInit ==
    /\ input = NoInput
    /\ output = NoOutput
    /\ ops = 0
    /\ userCache = EmptyObj
    /\ userStats =
          MapSet(EmptyObj, UserId,
                 [ totalActions |-> EarlierAttempts,
                   actions |-> Put(EmptyObj, "submit_attempt", EarlierAttempts),
                   firstSeen |-> 0, lastSeen |-> 0 ])
    /\ variant = "bot"
    /\ BotIdle
    /\ now = 0
    /\ userData = EmptyObj
    /\ PipeIdle

UsersNext ==
    \/ SetUser
    \/ UpdateActivity
    \/ UpdateUserStats
    \/ CheckSuspiciousActivity
    \/ BlockAUser
    \/ CheckUserBlock
    \/ CleanupCache
    \/ Elapse

SpecUsers == UsersInit /\ [][UsersNext]_vars

(***************************************************************************)
(* Properties                                                              *)
(***************************************************************************)
\* Every answer of the sink so far was a retryable failure.
AllRetryable == \A i \in DOMAIN answers : IsRetryable(answers[i])

\* C1: for a sink that answers every delivery attempt with a retryable
\* failure (503 or timeout), submitUserData makes at most 3 delivery attempts
\* in total, and what it returns has success = false.
PipelineBounded ==
    AllRetryable =>
        /\ posts <= 3
        /\ (returned # << >> => ~returned[1].success)

\* The last step was a handler taking an inbound event of the user.
Inbound == lastEvent.type \notin { "none", "finish", "call", "ack", "reset" }

\* C2: an inbound event of a user who is blocked at that moment leaves the
\* session (step, fields, attempts) as it was, and the reply tells the user
\* of the block.
BlockedUserRejected ==
    (Inbound /\ lastEvent.blocked) =>
        /\ ~lastEvent.changed
        /\ lastReply.kind = "blocked"

\* C3: a handler that reads or writes the user's session runs only when no
\* handler of an earlier event of that user is unfinished.
EventsSerialized == lastEvent.touch => lastEvent.during = 0

\* C4: the forced cancellation comes with exactly the 3rd failed validation
\* since the current field was entered (by a successful transition or by
\* starting a form): a failure that is not the 3rd re-prompts, the 3rd cancels.
ForcedCancelOnThird ==
    /\ lastEvent.type = "forced_cancel" => fails = 3
    /\ lastEvent.type = "invalid" => fails < 3

\* No collected field is left in the session.
NoFields ==
    /\ session.userData = EmptyObj
    /\ session.complaintData \in { Undefined, EmptyObj }

\* C5: whenever the step is idle, userData is empty and complaintData is
\* empty or absent.
IdleHoldsNoFields == session.step = "idle" => NoFields

\* C6: the cancel token (/cancel or the cancel button) received in an
\* awaiting step of either form leaves the session idle, with every
\* collected field emptied and attempts = 0.
CancelEmptiesSession ==
    (lastEvent.type = "cancel" /\ lastEvent.field # "idle") =>
        /\ session.step = "idle"
        /\ NoFields
        /\ session.attempts = 0

\* C7: right after a form is started while a form was in progress, the step
\* is the first field's, attempts = 0, and the session holds the new form's
\* identity data and nothing the discarded flow (of either kind) collected.
StartDiscardsProgress ==
    (lastEvent.type = "start" /\ lastEvent.field # "idle") =>
        /\ session.attempts = 0
        /\ \/ /\ session.step = "awaiting_name"
              /\ session.userData = IdentityData
              /\ session.complaintData \in { Undefined, EmptyObj }
           \/ /\ session.step = "awaiting_complaint_name"
              /\ session.complaintData = IdentityData
              /\ session.userData = EmptyObj

\* C8: when a submission has run to its end, the session is idle, holds no
\* fields and attempts = 0.
SubmissionResetsSession ==
    lastEvent.type = "reset" =>
        /\ session.step = "idle"
        /\ NoFields
        /\ session.attempts = 0

\* The email step of part_000 (which no conversation reaches, validatePhone
\* accepting no phone number) counts in the same way: handleEmailInput with
\* an invalid address and attempts = k.
EmailStepCounts ==
    \A k \in 0..2 :
        LET s == [ defaultSession EXCEPT !.step = "awaiting_email", !.attempts = k ]
            eff == handleEmailInput(s, BadText)
        IN  IF k < 2
            THEN /\ eff.session.step = "awaiting_email"
                 /\ eff.reply = Reply("reprompt", k + 1)
            ELSE /\ eff.session.step = "idle"
                 /\ eff.reply = Reply("too_many_attempts", 0)

\* C9: counting the consecutive invalid inputs to one validated field from
\* the moment the field was entered with attempts = 0, the 1st and the 2nd
\* are answered with a re-prompt showing the count and leave the step as it
\* was, and the 3rd is answered with the attempts-exhausted message and
\* leaves the session idle; there is no 4th.
ThirdInvalidExhausts ==
    /\ run <= 3
    /\ EmailStepCounts
    /\ (lastEvent.type \in { "invalid", "forced_cancel" } /\ run >= 1) =>
          /\ run < 3 =>
                /\ lastEvent.type = "invalid"
                /\ lastReply = Reply("reprompt", run)
                /\ session.step = lastEvent.field
                /\ session.attempts = run
          /\ run = 3 =>
                /\ lastEvent.type = "forced_cancel"
                /\ lastReply = Reply("too_many_attempts", 0)
                /\ session.step = "idle"
                /\ session.attempts = 0

\* A third consecutive invalid input has been answered.
ThirdInvalidSeen ==
    /\ lastEvent.type = "forced_cancel"
    /\ run = 3
    /\ session.step = "idle"

\* The answers so far are those of a sink that answers 503 to the delivery
\* attempts 1 and 2 and 2xx to the attempt 3.
ScriptedSink ==
    /\ Len(answers) >= 1
    /\ \A i \in DOMAIN answers :
          /\ i <= 2 => answers[i].kind = "http" /\ answers[i].status = 503
          /\ i = 3 => IsSuccess(answers[i])

\* C10: with a sink that answers 503, 503, 2xx, submitUserData makes exactly
\* 3 delivery attempts and then returns success = true with the id of the
\* sink's third answer.
ThirdAttemptSucceeds ==
    /\ [](ScriptedSink => posts <= 3)
    /\ []((ScriptedSink /\ returned # << >>) =>
            /\ posts = 3
            /\ Len(answers) = 3
            /\ returned[1].success
            /\ returned[1].id = answers[3].id)
    /\ (ScriptedSink /\ Len(answers) = 3) ~> (returned # << >>)

\* The sink answered 503, 503, 2xx and the call has returned success.
ThirdAttemptReturned ==
    /\ ScriptedSink
    /\ Len(answers) = 3
    /\ returned # << >>
    /\ returned[1].success

\* The sink refused the record: a 4xx status.
TerminalAnswer(resp) ==
    resp.kind = "http" /\ resp.status >= 400 /\ resp.status < 500

\* The record does not pass validateSubmissionData.
LocallyRejected == ~validateSubmissionData(Payload(userData))

\* C11: a record rejected by validateSubmissionData is never sent, and a 4xx
\* answer is the last delivery attempt: no retry is scheduled after either
\* (a 4xx answer to the first attempt leaves it the only one), and the call
\* returns a result with success = false.
TerminalNotRetried ==
    /\ [](LocallyRejected =>
            /\ posts = 0
            /\ waited = << >>
            /\ (returned # << >> => ~returned[1].success))
    /\ [](\A i \in DOMAIN answers :
            TerminalAnswer(answers[i]) =>
                /\ i = Len(answers)
                /\ posts = i
                /\ Len(waited) = i - 1
                /\ (returned # << >> => ~returned[1].success))
    /\ (LocallyRejected \/ (answers # << >> /\ TerminalAnswer(answers[Len(answers)])))
          ~> (returned # << >>)

\* The sink answered the first delivery attempt with a 4xx status and the
\* call has returned its failure.
TerminalFailureReturned ==
    /\ Len(answers) = 1
    /\ TerminalAnswer(answers[1])
    /\ returned # << >>
    /\ ~returned[1].success

\* C12: whatever the call of the complaint pipeline ends with (a success
\* result, a failure result, an exception), the message submitComplaint then
\* sends is the success acknowledgement; so is the one every complaint
\* submission of a conversation ends with.
ComplaintAlwaysAcknowledged ==
    /\ \A outcome \in Outcomes : ComplaintAck(outcome).kind = "complaint_ok"
    /\ (lastEvent.type = "ack" /\ lastEvent.field = "complaint") =>
          lastReply.kind = "complaint_ok"

\* A complaint submission has been acknowledged to the user.
ComplaintAcknowledged ==
    /\ lastEvent.type = "ack"
    /\ lastEvent.field = "complaint"
    /\ Has(session.complaintData, "complaint_text")

\* C13: the message submitData sends after the pipeline has returned is the
\* success acknowledgement if the result has success = true and the error
\* message if not; an exception of the call is answered with the error
\* message too.
ApplicationAckMatchesResult ==
    /\ ApplicationAck("exception") = Reply("app_error", 0)
    /\ (lastEvent.type = "ack" /\ lastEvent.field = "application") =>
          /\ returned # << >>
          /\ returned[1].success => lastReply = Reply("app_ok", 0)
          /\ ~returned[1].success => lastReply = Reply("app_error", 0)

\* A failed delivery has been shown to the user as an error.
ApplicationFailureShown ==
    /\ lastEvent.type = "ack"
    /\ lastEvent.field = "application"
    /\ returned # << >>
    /\ ~returned[1].success
    /\ lastReply = Reply("app_error", 0)

\* Every result a call of submitUserData returns is one of SubmitResults.
ReturnedAmongResults ==
    returned # << >> => returned[1] \in SubmitResults(userData)

\* The two forms the phone prompt of the bot shows, +380XXXXXXXXX and
\* 0XXXXXXXXX, once spaces, hyphens and parentheses are taken out.
AdvertisedPhone(text) ==
    LET clean == Remove(text, { " ", "-", "(", ")" })
        digits(s) == \A i \in DOMAIN s : s[i] \in Digits
    IN  \/ /\ Len(clean) = 13
           /\ SubSeq(clean, 1, 4) = << "+","3","8","0" >>
           /\ digits(SubSeq(clean, 5, 13))
        \/ /\ Len(clean) = 10
           /\ clean[1] = "0"
           /\ digits(clean)

\* C14: validatePhone accepts every phone number of one of the two forms the
\* bot shows to the user, with or without spaces, hyphens and parentheses.
AdvertisedPhonesAccepted ==
    (output.fn = "validatePhone" /\ AdvertisedPhone(input.text)) =>
        output.value = TRUE

\* C15: normalizePhone returns +380501234567 for 0501234567 and for
\* +380501234567.
PhoneNormalizedToCanonical ==
    (output.fn = "normalizePhone"
        /\ input.text \in { NationalPhoneText, IntlPhoneText }) =>
        output.value = IntlPhoneText

\* The score the rules give: 30 for more than 5 actions a minute and 40 more
\* for more than 10, 25 for more than half the actions failed validations,
\* 20 for more than three tenths cancellations, 15 for more than 10 starts,
\* 25 for more than 5 submit attempts, and 100 at most.
ExpectedRiskScore(st) ==
    LET count(name) == IF name \in DOMAIN st.actions THEN st.actions[name] ELSE 0
        minutes == IF now - st.firstSeen > 1 THEN now - st.firstSeen ELSE 1
        sum == (IF st.totalActions > 5 * minutes THEN 30 ELSE 0)
               + (IF st.totalActions > 10 * minutes THEN 40 ELSE 0)
               + (IF 2 * count("validation_failed") > st.totalActions THEN 25 ELSE 0)
               + (IF 10 * count("cancel") > 3 * st.totalActions THEN 20 ELSE 0)
               + (IF count("start") > 10 THEN 15 ELSE 0)
               + (IF count("submit_attempt") > 5 THEN 25 ELSE 0)
    IN  IF sum > 100 THEN 100 ELSE sum

\* C19: calculateRiskScore returns the sum of the rules' points capped at
\* 100: an integer in 0..100, 0 for statistics with no action, and at least
\* 25 for statistics with 6 submit attempts.
RiskScoreAsSpecified ==
    output.fn = "calculateRiskScore" =>
        /\ output.value = ExpectedRiskScore(input.stats)
        /\ output.value \in 0..100
        /\ input.stats.totalActions = 0 => output.value = 0
        /\ ActionCount(input.stats, "submit_attempt") = 6 => output.value >= 25

\* A score that the cap has cut down to 100.
RiskScoreCapped ==
    /\ output.fn = "calculateRiskScore"
    /\ RiskPoints(input.stats) > 100
    /\ output.value = 100

\* The users whose entry of userCache has blocked = true.
BlockedUsers(cache) == { u \in DOMAIN cache : IsBlocked(cache[u]) }

\* C16: the first checkUserBlock(u) after blockedUntil returns blocked =
\* false and stores u with blocked = false and without reason, blockedAt
\* and blockedUntil; a checkUserBlock of a user who is not blocked returns
\* false and changes nothing; and a user who is not blocked becomes blocked
\* by blockUser for that user only, so no timer has a part in it.
LazyExpiryOnRead ==
    [][ /\ output'.fn = "checkUserBlock" /\ input'.expired =>
              /\ ~output'.value.blocked
              /\ input'.user \in DOMAIN userCache'
              /\ Has(userCache'[input'.user], "blocked")
              /\ ~userCache'[input'.user]["blocked"]
              /\ DOMAIN userCache'[input'.user]
                     \cap { "reason", "blockedAt", "blockedUntil" } = { }
        /\ output'.fn = "checkUserBlock" /\ input'.user \notin BlockedUsers(userCache) =>
              /\ ~output'.value.blocked
              /\ userCache' = userCache
        /\ \A u \in BlockedUsers(userCache') \ BlockedUsers(userCache) :
              output'.fn = "blockUser" /\ input'.user = u ]_vars

\* checkUserBlock has just found a block that had run out.
ExpiredBlockRead ==
    /\ output.fn = "checkUserBlock"
    /\ input.expired
    /\ ~output.value.blocked
    /\ input.user \notin BlockedUsers(userCache)

\* C17: every user stored with blocked = true has a blockedUntil later than
\* the current time.
BlockedOnlyUntilLater ==
    \A u \in BlockedUsers(userCache) :
        /\ Has(userCache[u], "blockedUntil")
        /\ userCache[u]["blockedUntil"] > now

\* C18: updateActivity, updateUserStats and checkSuspiciousActivity (which
\* calls calculateRiskScore) leave the blocked flag of every user as it was.
ScoringNeverBlocks ==
    [][ output'.fn \in { "updateActivity", "updateUserStats",
                         "checkSuspiciousActivity" } =>
            /\ BlockedUsers(userCache') = BlockedUsers(userCache)
            /\ \A u \in DOMAIN userCache :
                  /\ u \in DOMAIN userCache'
                  /\ Has(userCache'[u], "blocked") = Has(userCache[u], "blocked") ]_vars

\* checkSuspiciousActivity has found a user suspicious, with a positive
\* risk score, who is not blocked.
SuspiciousNotBlocked ==
    /\ output.fn = "checkSuspiciousActivity"
    /\ output.value.suspicious
    /\ output.value.riskScore > 0
    /\ input.user \notin BlockedUsers(userCache)

\* The entries with a last activity before the 24 hours that end now.
OlderThanTTL(cache) ==
    { u \in DOMAIN cache :
        Has(cache[u], "lastActivity") /\ now - cache[u]["lastActivity"] > 24 * 60 }

\* The entries with a last activity within the 24 hours that end now.
WithinTTL(cache) ==
    { u \in DOMAIN cache :
        Has(cache[u], "lastActivity") /\ now - cache[u]["lastActivity"] <= 24 * 60 }

\* C20: after cleanupCache the entries whose last activity is older than 24
\* hours are absent, and the entries whose last activity is within 24 hours
\* are present with their data unchanged.
CleanupKeepsFresh ==
    [][ output'.fn = "cleanupCache" =>
            /\ \A u \in OlderThanTTL(userCache) : u \notin DOMAIN userCache'
            /\ \A u \in WithinTTL(userCache) :
                  /\ u \in DOMAIN userCache'
                  /\ userCache'[u] = userCache[u] ]_vars

\* cleanupCache has removed an entry older than 24 hours and kept another.
CleanupRemovedAndKept ==
    /\ output.fn = "cleanupCache"
    /\ OlderThanTTL(input.cache) # { }
    /\ OlderThanTTL(input.cache) \cap DOMAIN userCache = { }
    /\ WithinTTL(input.cache) # { }
    /\ WithinTTL(input.cache) \subseteq DOMAIN userCache

\* The part of an address before its first "@".
LocalPart(text) ==
    LET ats == { i \in DOMAIN text : text[i] = "@" }
    IN  IF ats = { } THEN text
        ELSE SubSeq(text, 1, (CHOOSE i \in ats : \A j \in ats : i <= j) - 1)

\* The local part of the address holds a denied word, in whatever case.
DeniedLocalPart(text) ==
    LET local == ToLowerCase(LocalPart(text)) IN
    \E w \in DeniedLocalWords :
        \E i \in 1 .. (Len(local) - Len(w) + 1) :
            SubSeq(local, i, i + Len(w) - 1) = w

\* C21: validateEmail rejects TEST@EXAMPLE.com in every letter case, and
\* every address whose local part contains test, spam, fake, noreply or
\* no-reply in any letter case.
DeniedEmailRejected ==
    output.fn = "validateEmail" =>
        /\ ToLowerCase(input.text) = TestEmailText => output.value = FALSE
        /\ DeniedLocalPart(input.text) => output.value = FALSE

\* validateEmail has rejected TEST@EXAMPLE.com.
UpperCaseTestRejected ==
    /\ output.fn = "validateEmail"
    /\ input.text = << "T","E","S","T","@","E","X","A","M","P","L","E",
                       ".","c","o","m" >>
    /\ output.value = FALSE

\* validatePhone has accepted no number it was called with.
NoPhoneAccepted == output.fn = "validatePhone" => output.value = FALSE

ValidatorsNeverRaise ==
    output.fn = "validator" =>
        /\ output.threw = FALSE
        /\ output.value \in BOOLEAN

\* validateMessage has returned false for null or undefined.
NullishRejected ==
    /\ output.fn = "validator"
    /\ output.name = "validateMessage"
    /\ input.value \in { JsNull, JsUndefined }
    /\ output.threw = FALSE
    /\ output.value = FALSE

\* The texts a user may try at a step: the messages of the model, the phone
\* numbers of PhoneInputs and the numbers a shared contact carries.
TriedInputs == Messages(variant) \cup PhoneInputs \cup ContactPhones

\* C24: the application form can be completed: at every step of the form
\* the user has an input that the step accepts, the phone step included, so
\* that the steps can be passed in order up to the call of the pipeline.
EveryStepPassable ==
    session.step \in Cases(variant) =>
        \E m \in TriedInputs :
            handleTextMessage(variant, session, m).event.type \in { "enter", "submit" }

\* No conversation gets beyond the phone step or calls submitUserData.
ApplicationNeverSubmitted ==
    /\ calls = << >>
    /\ session.step \notin { "awaiting_education", "awaiting_email",
                             "awaiting_vacancy", "awaiting_message" }

\* C25: when the complaint form has been completed and its submission
\* answered, the complaint record has been handed to the submission
\* pipeline, the one that delivers applications with its retries.
ComplaintHandedToPipeline ==
    (lastEvent.type = "ack" /\ lastEvent.field = "complaint") =>
        \E i \in DOMAIN calls : Has(calls[i], "complaint_text")

\* The steps of the forms in their order: the application form of bot.js
\* and bot-2.js, that of the e-mail variant, and the complaint form.
FormOrder(v, step) ==
    IF step \in { "awaiting_complaint_name", "awaiting_complaint_text" }
    THEN << "awaiting_complaint_name", "awaiting_complaint_text" >>
    ELSE IF v = "part_000"
    THEN << "awaiting_name", "awaiting_phone", "awaiting_email", "awaiting_message" >>
    ELSE << "awaiting_name", "awaiting_age", "awaiting_phone", "awaiting_education",
            "awaiting_vacancy", "awaiting_message" >>

\* The step right after `step` in the form, "submission" after the last.
SuccessorStep(v, step) ==
    LET order == FormOrder(v, step)
        i == CHOOSE k \in DOMAIN order : order[k] = step
    IN  IF i = Len(order) THEN "submission" ELSE order[i + 1]

\* The name under which the value of a step is stored.
OwnField(step) ==
    CASE step = "awaiting_name" -> "name"
      [] step = "awaiting_age" -> "age"
      [] step = "awaiting_phone" -> "phone"
      [] step = "awaiting_email" -> "email"
      [] step = "awaiting_education" -> "education"
      [] step = "awaiting_vacancy" -> "vacancy"
      [] step = "awaiting_message" -> "message"
      [] step = "awaiting_complaint_name" -> "name"
      [] step = "awaiting_complaint_text" -> "complaint_text"

\* The fields of the form the step belongs to, in the session s.
FieldsOf(s, step) ==
    IF step \in { "awaiting_complaint_name", "awaiting_complaint_text" }
    THEN s.complaintData ELSE s.userData

\* C26: in every variant an accepted input at a step stores the value under
\* the step's own field name and nothing else, sets attempts to 0 and moves
\* to the step right after it in the form's order; at the last step it
\* stores the value (if one was given) and enters the submission.
AcceptedInputAdvances ==
    [][ /\ lastEvent'.type = "enter" =>
              /\ session'.step = SuccessorStep(variant, lastEvent'.field)
              /\ session'.attempts = 0
              /\ Has(FieldsOf(session', lastEvent'.field), OwnField(lastEvent'.field))
              /\ \A k \in DOMAIN FieldsOf(session', lastEvent'.field) :
                    k # OwnField(lastEvent'.field) =>
                        /\ Has(FieldsOf(session, lastEvent'.field), k)
                        /\ FieldsOf(session', lastEvent'.field)[k]
                              = FieldsOf(session, lastEvent'.field)[k]
        /\ lastEvent'.type = "submit" =>
              /\ SuccessorStep(variant, lastEvent'.field) = "submission"
              /\ \A k \in DOMAIN FieldsOf(session', lastEvent'.field) :
                    k # OwnField(lastEvent'.field) =>
                        /\ Has(FieldsOf(session, lastEvent'.field), k)
                        /\ FieldsOf(session', lastEvent'.field)[k]
                              = FieldsOf(session, lastEvent'.field)[k] ]_vars

\* C27: every input rejected at a step, a message over the length limit
\* included, adds 1 to attempts; below 3 the step and the stored fields stay
\* as they were, and at 3 the session is cancelled.
RejectedInputCounts ==
    [][ lastEvent'.type \in { "invalid", "overlong", "forced_cancel" } =>
            IF session.attempts + 1 < 3
            THEN session' = [ session EXCEPT !.attempts = session.attempts + 1 ]
            ELSE /\ lastEvent'.type = "forced_cancel"
                 /\ session'.step = "idle" ]_vars

\* The fields a form collects, and the identity of the user.
CollectedFields ==
    { "telegram_id", "name", "age", "phone", "email", "education", "vacancy",
      "message" }

\* C28: the record sent to the sink holds every field the session had
\* collected when submitUserData was called, with the value collected, and
\* the identity of the user.
SinkRecordComplete ==
    (lastEvent.type = "call" /\ validateSubmissionData(Payload(calls[Len(calls)]))) =>
        \A k \in CollectedFields \cap DOMAIN calls[Len(calls)] :
            /\ Has(Payload(calls[Len(calls)]), k)
            /\ Payload(calls[Len(calls)])[k] = calls[Len(calls)][k]

\* C29: after cleanupCache no statistics remain of a user whose last
\* recorded action is more than 24 hours old, whether or not setUser was
\* ever called for the user.
StaleStatsPruned ==
    output.fn = "cleanupCache" =>
        \A u \in DOMAIN userStats : now - userStats[u].lastSeen <= 24 * 60

RetryDelaysLinear ==
    \A k \in 1 .. Len(waited) : waited[k] = k * 2000

\* C38: submitUserData never rejects: whatever the record and whatever the
\* sink answers, every call of it that completes, the outermost and the
\* ones made by retrySubmission, completes with a result object whose
\* success field is a boolean; so the catch branch of retrySubmission is
\* never taken and every retrySubmission runs with attempt = 1.
SubmitNeverRejects ==
    /\ \A i \in 1 .. Len(ret) :
          ~IsRejection(ret[i]) /\ ret[i].success \in BOOLEAN
    /\ \A i \in 1 .. Len(returned) :
          ~IsRejection(returned[i]) /\ returned[i].success \in BOOLEAN
    /\ \A i \in 1 .. Len(stack) :
          stack[i].fn = "retrySubmission" => stack[i].attempt = 1

\* C38 (witness): a call has returned a failure after a 5xx answer, a retry
\* and a network error.
NetworkErrorReturned ==
    /\ returned # << >>
    /\ ~IsRejection(returned[1])
    /\ ~returned[1].success
    /\ Len(waited) >= 1
    /\ Len(answers) >= 2
    /\ answers[1].kind = "http" /\ answers[1].status >= 500
    /\ answers[Len(answers)].kind = "network"

\* C32: at the message step the skip token of the variant, in any letter
\* case, bypasses validation: the session is left as it was (no message
\* stored, attempts unchanged, the collected fields kept) and the handler
\* goes on to submitData.
SkipBypassesValidation ==
    ( /\ output.fn = "handleMessageInput"
      /\ ToLowerCase(input.text)
            = (IF input.v = "part_000" THEN SkipRu ELSE SkipUk) ) =>
        /\ output.value.session = input.session
        /\ ~Has(output.value.session.userData, "message")
        /\ output.value.event.type = "submit"
        /\ output.value.pc = "sending"
        /\ output.value.form = "application"

\* C32 (witness): the skip token typed in upper case has led to submitData.
UpperCaseSkipSubmits ==
    /\ output.fn = "handleMessageInput"
    /\ input.text # ToLowerCase(input.text)
    /\ ToLowerCase(input.text) = (IF input.v = "part_000" THEN SkipRu ELSE SkipUk)
    /\ input.session.attempts > 0
    /\ output.value.event.type = "submit"
    /\ ~Has(output.value.session.userData, "message")

OneDeliveryPerForm ==
    /\ Len(calls) <= 1
    /\ \A h, g \in BagToSet(inflight) :
          (h.form = "application" /\ g.form = "application") =>
              h = g /\ CopiesIn(h, inflight) = 1

\* C35: the reset of the session that ends a submission touches only the
\* session that was submitted: when the user has meanwhile started another
\* form (the session is at a step of a form, not the step the submission
\* was made from), the completion leaves step, fields and attempts alone.
CompletionSparesNewForm ==
    [][ ( /\ lastEvent'.type = "reset"
          /\ session.step \notin { "idle", "awaiting_message",
                                   "awaiting_complaint_text" } ) =>
            /\ session'.step = session.step
            /\ session'.userData = session.userData
            /\ session'.attempts = session.attempts ]_vars

\* C39: in every state another event can observe (a handler has yielded or
\* finished) the counter of attempts is 0, 1 or 2, and it is 0 whenever the
\* step is idle: the value 3 is replaced by 0 before the handler yields.
AttemptsInRange ==
    /\ session.attempts \in 0 .. 2
    /\ session.step = "idle" => session.attempts = 0

\* C39 (witness): the third rejected input in a row has been handled, the
\* counter having stood at 2 before it: the session is idle with attempts 0.
CounterClearedAtLimit ==
    /\ lastEvent.type = "forced_cancel"
    /\ run = 3
    /\ session.step = "idle"
    /\ session.attempts = 0

\* C36: a block lasts for its whole duration whatever sweeps run in between:
\* a user who is blocked, the block not yet over, is still blocked with the
\* same reason and the same end after a cleanupCache, whether or not the
\* user had a cache entry before being blocked.
BlockOutlastsSweeps ==
    [][ output'.fn = "cleanupCache" =>
            \A u \in DOMAIN userCache :
                (IsBlocked(userCache[u]) /\ now <= userCache[u]["blockedUntil"]) =>
                    /\ u \in DOMAIN userCache'
                    /\ checkUserBlock(userCache', u).blocked
                    /\ checkUserBlock(userCache', u).reason = userCache[u]["reason"] ]_vars

\* C37: setUser and updateActivity leave the block of the user they are
\* called for as it was: a user blocked before the call is blocked after it
\* with the same reason and the same blockedUntil.
ProfileCallsKeepBlock ==
    [][ output'.fn \in { "setUser", "updateActivity" } =>
            LET u == input'.user IN
            (u \in DOMAIN userCache /\ IsBlocked(userCache[u])) =>
                /\ u \in DOMAIN userCache'
                /\ IsBlocked(userCache'[u])
                /\ userCache'[u]["reason"] = userCache[u]["reason"]
                /\ userCache'[u]["blockedUntil"] = userCache[u]["blockedUntil"] ]_vars

\* The sum of the per-action counts of a statistics record.
RECURSIVE SumCounts(_, _)
SumCounts(actions, names) ==
    IF names = { } THEN 0
    ELSE LET n == CHOOSE x \in names : TRUE
         IN  actions[n] + SumCounts(actions, names \ { n })

\* C40: in every statistics record totalActions is the sum of the counts of
\* the actions, and a call of updateActivity, setUser or updateUserStats
\* adds 1 to the count of its action and to totalActions of its user,
\* keeps firstSeen of a record that existed, and leaves the records of the
\* other users as they were.
StatsCountEveryAction ==
    /\ [](\A u \in DOMAIN userStats :
            userStats[u].totalActions
                = SumCounts(userStats[u].actions, DOMAIN userStats[u].actions))
    /\ [][ output'.fn \in { "updateActivity", "setUser", "updateUserStats" } =>
              LET u == input'.user
                  had == u \in DOMAIN userStats
                  total == IF had THEN userStats[u].totalActions ELSE 0
              IN  /\ u \in DOMAIN userStats'
                  /\ userStats'[u].totalActions = total + 1
                  /\ \E a \in DOMAIN userStats'[u].actions :
                        /\ userStats'[u].actions[a]
                              = 1 + (IF had THEN ActionCount(userStats[u], a) ELSE 0)
                        /\ \A b \in DOMAIN userStats'[u].actions \ { a } :
                              had /\ userStats'[u].actions[b] = ActionCount(userStats[u], b)
                  /\ had => userStats'[u].firstSeen = userStats[u].firstSeen
                  /\ \A w \in DOMAIN userStats \ { u } :
                        w \in DOMAIN userStats' /\ userStats'[w] = userStats[w] ]_vars

\* C40 (witness): the record of one user counts two actions (the earlier
\* submit attempts, one more, and a data_updated of setUser), and
\* updateActivity has just created the record of the other user.
TwoActionsCounted ==
    /\ output.fn = "updateActivity"
    /\ input.user = OtherUserId
    /\ OtherUserId \in DOMAIN userStats
    /\ userStats[OtherUserId].totalActions = 1
    /\ UserId \in DOMAIN userStats
    /\ ActionCount(userStats[UserId], "data_updated") = 1
    /\ ActionCount(userStats[UserId], "submit_attempt") = EarlierAttempts + 1
    /\ userStats[UserId].totalActions = EarlierAttempts + 2

====
